---- MODULE Spec2Model ----
(***************************************************************************)
(* A model of tadatakit's schema compiler (class_generator): the           *)
(* definition classifier, the polymorph factory, the DefinitionRegistry    *)
(* compilation passes and the SchemaObject runtime protocol                *)
(* (construction, from_dict, to_dict).                                     *)
(*                                                                         *)
(* Representation.  A name (definition name, property name, dict key,      *)
(* attribute name) is a sequence of one-character strings, so that the     *)
(* case conversions of utils.py are computed character by character.  A    *)
(* JSON object (a schema node) is a record: the key k is present iff       *)
(* k \in DOMAIN of the record.  The JSON key "$ref" is written ref and the *)
(* key "if" is written if_ ("then" is written then_).                      *)
(***************************************************************************)
EXTENDS Integers, Sequences, FiniteSets, TLC

(***************************************************************************)
(* Characters (Python str methods on the ASCII subset used by the names).  *)
(***************************************************************************)
UpperChars == <<"A","B","C","D","E","F","G","H","I","J","K","L","M",
                "N","O","P","Q","R","S","T","U","V","W","X","Y","Z">>
LowerChars == <<"a","b","c","d","e","f","g","h","i","j","k","l","m",
                "n","o","p","q","r","s","t","u","v","w","x","y","z">>
DigitChars == <<"0","1","2","3","4","5","6","7","8","9">>

Range(s) == {s[i] : i \in DOMAIN s}

IsUpper(c) == c \in Range(UpperChars)
IsLower(c) == c \in Range(LowerChars)
IsDigit(c) == c \in Range(DigitChars)

IndexOf(c, s) == CHOOSE i \in DOMAIN s : s[i] = c

\* str.lower() / str.upper() of one character
LowerChar(c) == IF IsUpper(c) THEN LowerChars[IndexOf(c, UpperChars)] ELSE c
UpperChar(c) == IF IsLower(c) THEN UpperChars[IndexOf(c, LowerChars)] ELSE c

\* str.lower() of a name
Lower(s) == [i \in DOMAIN s |-> LowerChar(s[i])]

\* str.isidentifier(): non-empty, a letter or "_" first, then letters,
\* digits and "_"
IsIdentifier(s) ==
    /\ Len(s) > 0
    /\ IsUpper(s[1]) \/ IsLower(s[1]) \/ s[1] = "_"
    /\ \A i \in DOMAIN s : IsUpper(s[i]) \/ IsLower(s[i]) \/ IsDigit(s[i]) \/ s[i] = "_"

\* the end of the run of lower-case letters that starts at position i
RECURSIVE LowerRunEnd(_, _)
LowerRunEnd(s, i) ==
    IF i + 1 <= Len(s) /\ IsLower(s[i + 1]) THEN LowerRunEnd(s, i + 1) ELSE i

\* re.sub("(.)([A-Z][a-z]+)", r"\1_\2", s), scanning from position i
RECURSIVE SubWordStart(_, _)
SubWordStart(s, i) ==
    IF i > Len(s) THEN <<>>
    ELSE IF i + 2 <= Len(s) /\ IsUpper(s[i + 1]) /\ IsLower(s[i + 2])
         THEN LET j == LowerRunEnd(s, i + 2)
              IN  <<s[i], "_">> \o SubSeq(s, i + 1, j) \o SubWordStart(s, j + 1)
         ELSE <<s[i]>> \o SubWordStart(s, i + 1)

\* re.sub("([a-z0-9])([A-Z])", r"\1_\2", s), scanning from position i
RECURSIVE SubLowerUpper(_, _)
SubLowerUpper(s, i) ==
    IF i > Len(s) THEN <<>>
    ELSE IF i + 1 <= Len(s) /\ (IsLower(s[i]) \/ IsDigit(s[i])) /\ IsUpper(s[i + 1])
         THEN <<s[i], "_", s[i + 1]>> \o SubLowerUpper(s, i + 2)
         ELSE <<s[i]>> \o SubLowerUpper(s, i + 1)

\* the value pascal_to_snake returns
pascal_to_snake(name) ==
    IF ~IsIdentifier(name) THEN name
    ELSE IF "_" \in Range(name) THEN name
    ELSE Lower(SubLowerUpper(SubWordStart(name, 1), 1))

\* the special-names set after pascal_to_snake(name, special): the call adds
\* a valid identifier that holds "_"
pascal_to_snake_special(name, special) ==
    IF IsIdentifier(name) /\ "_" \in Range(name) THEN special \cup {name} ELSE special

\* "".join(x.title() for x in s.split("_")), from position i; cased tells
\* whether the previous character of the current piece was a letter
RECURSIVE TitleJoin(_, _, _)
TitleJoin(s, i, cased) ==
    IF i > Len(s) THEN <<>>
    ELSE IF s[i] = "_" THEN TitleJoin(s, i + 1, FALSE)
    ELSE IF IsUpper(s[i]) \/ IsLower(s[i])
         THEN <<IF cased THEN LowerChar(s[i]) ELSE UpperChar(s[i])>>
              \o TitleJoin(s, i + 1, TRUE)
         ELSE <<s[i]>> \o TitleJoin(s, i + 1, FALSE)

snake_to_pascal(name, special) ==
    IF ~IsIdentifier(name) THEN name
    ELSE IF name \in special THEN name
    ELSE TitleJoin(name, 1, FALSE)


(***************************************************************************)
(* Names used by the schemas and the data of the model.                    *)
(***************************************************************************)
N_role     == <<"r","o","l","e">>
N_kind     == <<"k","i","n","d">>
N_Employee == <<"E","m","p">>
N_Manager  == <<"M","g","r">>
N_Intern   == <<"I","n","t">>

\* a "$ref" string is kept as its "/"-separated segments
RefTo(name) == << <<"#">>, <<"$","d","e","f","s">>, name >>
\* ref.split("/")[-1]
RefName(ref) == ref[Len(ref)]

\* the empty JSON object {}
EmptyDef == [x \in {} |-> TRUE]
\* the JSON value false where a schema is expected
FalseSchema == [json |-> "false"]
\* `not definition`
Falsy(definition) == definition \in {EmptyDef, FalseSchema}

\* values: None, int, str (the model keeps string values whole)
None == [k |-> "none"]
IntV(n) == [k |-> "int", i |-> n]
StrV(s) == [k |-> "str", s |-> s]

(***************************************************************************)
(* The definition classifier.                                              *)
(***************************************************************************)
NATIVE == "native"
CUSTOM == "custom"
PASSTHROUGH == "passthrough"
MULTIINHERITANCE == "multi-inheritance"
LIST == "list"
UNION_ == "union"
POLYMORPH == "polymorph"
ENUM == "enum"

\* the exceptions of the model, by class name
DefinitionUnidentifiedError == "DefinitionUnidentifiedError"
KeyError == "KeyError"
TypeError == "TypeError"
ValueError == "ValueError"

\* the keys of native_type_mapping
native_type_mapping == {"string", "integer", "number", "boolean", "array", "object"}

Has(d, key) == key \in DOMAIN d

\* definition.get("type") in native_type_mapping
HasNativeType(d) == Has(d, "type") /\ d.type \in native_type_mapping

\* all("if" in condition and "then" in condition for condition in definition["allOf"])
AllConditional(d) == \A i \in DOMAIN d.allOf : Has(d.allOf[i], "if_") /\ Has(d.allOf[i], "then_")

\* any("if" in cond and "then" in cond for cond in definition["allOf"])
AnyConditional(d) == \E i \in DOMAIN d.allOf : Has(d.allOf[i], "if_") /\ Has(d.allOf[i], "then_")

\* a faulty variant of the classifier: any() in place of all()
identify_definition_type_any(definition) ==
    IF Has(definition, "ref") THEN PASSTHROUGH
    ELSE IF Has(definition, "allOf")
         THEN IF AnyConditional(definition) THEN POLYMORPH ELSE MULTIINHERITANCE
    ELSE IF Has(definition, "oneOf") \/ Has(definition, "anyOf") THEN UNION_
    ELSE IF HasNativeType(definition)
         THEN IF definition.type = "object" THEN CUSTOM
              ELSE IF definition.type = "array" THEN LIST
              ELSE NATIVE
    ELSE IF Has(definition, "enum") THEN ENUM
    ELSE DefinitionUnidentifiedError

\* DefinitionRegistry._identify_definition_type: the category, or the
\* exception raised
identify_definition_type(definition) ==
    IF Has(definition, "ref") THEN PASSTHROUGH
    ELSE IF Has(definition, "allOf")
         THEN IF AllConditional(definition) THEN POLYMORPH ELSE MULTIINHERITANCE
    ELSE IF Has(definition, "oneOf") \/ Has(definition, "anyOf") THEN UNION_
    ELSE IF HasNativeType(definition)
         THEN IF definition.type = "object" THEN CUSTOM
              ELSE IF definition.type = "array" THEN LIST
              ELSE NATIVE
    ELSE IF Has(definition, "enum") THEN ENUM
    ELSE DefinitionUnidentifiedError

Categories == {NATIVE, CUSTOM, PASSTHROUGH, MULTIINHERITANCE, LIST, UNION_, POLYMORPH, ENUM}

\* the first exception among the results rs of classifying sub-definitions
\* in order, "" if none
RECURSIVE FirstError(_, _)
FirstError(rs, i) ==
    IF i > Len(rs) THEN ""
    ELSE IF rs[i] \notin Categories /\ rs[i] # "None" THEN rs[i]
    ELSE FirstError(rs, i + 1)

\* initialise_classes.identify_definition_type: the category (the first
\* element of the tuple it returns), "None" for an empty definition, or the
\* exception raised
RECURSIVE legacy_identify_definition_type(_)
legacy_identify_definition_type(definition) ==
    IF definition = EmptyDef THEN "None"
    ELSE IF Has(definition, "ref") THEN PASSTHROUGH
    ELSE IF Has(definition, "allOf")
         THEN LET rs == [i \in DOMAIN definition.allOf |->
                            legacy_identify_definition_type(definition.allOf[i])]
              IN  IF FirstError(rs, 1) # "" THEN FirstError(rs, 1) ELSE MULTIINHERITANCE
    ELSE IF Has(definition, "oneOf")
         THEN LET rs == [i \in DOMAIN definition.oneOf |->
                            legacy_identify_definition_type(definition.oneOf[i])]
              IN  IF FirstError(rs, 1) # "" THEN FirstError(rs, 1)
                  ELSE IF Has(definition, "discriminator") THEN POLYMORPH ELSE UNION_
    ELSE IF HasNativeType(definition)
         THEN IF definition.type = "object" THEN CUSTOM
              ELSE IF definition.type = "array"
                   THEN IF ~Has(definition, "items") THEN KeyError
                        ELSE LET r == legacy_identify_definition_type(definition.items)
                             IN  IF r = "None" THEN TypeError
                                 ELSE IF r \notin Categories THEN r
                                 ELSE LIST
              ELSE NATIVE
    ELSE DefinitionUnidentifiedError


(***************************************************************************)
(* Python dicts with insertion order: sequences of [key, val] entries.     *)
(***************************************************************************)
DictKeys(d) == {d[i].key : i \in DOMAIN d}
DictGet(d, key) == d[CHOOSE i \in DOMAIN d : d[i].key = key].val

\* the outcome of a call: a returned value or a raised exception
Returned(v) == [ok |-> TRUE, val |-> v]
Raised(e) == [ok |-> FALSE, exc |-> e]
\* a raised exception e with the text str(e) gives
RaisedWith(e, text) == [ok |-> FALSE, exc |-> e, text |-> text]
\* the texts the model tells apart: the two that SchemaObject composes, and
\* any other
OtherText == [kind |-> "other"]
TextOf(out) == IF "text" \in DOMAIN out THEN out.text ELSE OtherText
\* f"Argument '{name}' must be of type {expected_type} (value:{value}, type:{type(value)})"
ArgumentText(name, expected_type, value) ==
    [kind |-> "argument", name |-> name, expected_type |-> expected_type,
     value |-> value, type |-> value.k]
\* f"Error while constructing {cls.__name__}: {str(e)}"
ConstructingText(cls_name, text) == [kind |-> "constructing", cls |-> cls_name, text |-> text]

(***************************************************************************)
(* polymorph_factory.py                                                    *)
(***************************************************************************)
\* the keys of a mapping {value: "$ref"}, kept as [value, ref] entries
MappingValues(m) == {m[i].value : i \in DOMAIN m}

\* PolymorphFactory.__init__(definition_registry, definition): the factory
\* (its discriminator_property and discriminator_mapping), or the exception;
\* casters is definition_registry._casters
PolymorphFactory(casters, definition) ==
    IF ~Has(definition, "discriminator") THEN Raised(KeyError)
    ELSE IF ~Has(definition.discriminator, "propertyName") THEN Raised(KeyError)
    ELSE IF ~Has(definition.discriminator, "mapping") THEN Raised(KeyError)
    ELSE LET m == definition.discriminator.mapping
         IN  IF \E i \in DOMAIN m : RefName(m[i].ref) \notin DOMAIN casters
             THEN Raised(KeyError)
             ELSE Returned([discriminator_property |-> definition.discriminator.propertyName,
                            discriminator_mapping |->
                                [i \in DOMAIN m |->
                                    [value |-> m[i].value,
                                     caster |-> casters[RefName(m[i].ref)]]]])

\* self.discriminator_mapping[value]
MappingGet(m, value) == m[CHOOSE i \in DOMAIN m : m[i].value = value].caster

\* a faulty variant of discriminate: an unmapped value falls back to the first entry
discriminate_default(factory, data_dict) ==
    IF factory.discriminator_property \notin DictKeys(data_dict) THEN Raised(KeyError)
    ELSE LET value == DictGet(data_dict, factory.discriminator_property)
         IN  IF value \notin MappingValues(factory.discriminator_mapping)
             THEN IF factory.discriminator_mapping = <<>> THEN Raised(KeyError)
                  ELSE Returned([caster |-> factory.discriminator_mapping[1].caster,
                                 arg |-> data_dict])
             ELSE Returned([caster |-> MappingGet(factory.discriminator_mapping, value),
                            arg |-> data_dict])

\* PolymorphFactory.discriminate(data_dict), up to the call of the caster:
\* the caster it calls and the argument it passes, or the exception
discriminate(factory, data_dict) ==
    IF factory.discriminator_property \notin DictKeys(data_dict) THEN Raised(KeyError)
    ELSE LET value == DictGet(data_dict, factory.discriminator_property)
         IN  IF value \notin MappingValues(factory.discriminator_mapping)
             THEN Raised(KeyError)
             ELSE Returned([caster |-> MappingGet(factory.discriminator_mapping, value),
                            arg |-> data_dict])


(***************************************************************************)
(* Values, type hints and casters.                                         *)
(***************************************************************************)
\* a dict (insertion-ordered [key, val] entries), a list, an instance of the
\* class with the given id (attrs is its __dict__, in insertion order)
DictV(entries) == [k |-> "dict", entries |-> entries]
ListV(items) == [k |-> "list", items |-> items]
ObjV(cid, attrs) == [k |-> "obj", cid |-> cid, attrs |-> attrs]
FloatV(n) == [k |-> "float", f |-> n]
BoolV(b) == [k |-> "bool", b |-> b]

\* d[key] = val on a dict: an existing key keeps its position
DictPut(d, key, val) ==
    IF key \in DictKeys(d)
    THEN [i \in DOMAIN d |-> IF d[i].key = key THEN [key |-> key, val |-> val] ELSE d[i]]
    ELSE Append(d, [key |-> key, val |-> val])

\* the same for a dict of definitions or properties, kept as [name, def]
DefNames(ds) == {ds[i].name : i \in DOMAIN ds}
DefGet(ds, name) == ds[CHOOSE i \in DOMAIN ds : ds[i].name = name].def
DefPut(ds, name, def) ==
    IF name \in DefNames(ds)
    THEN [i \in DOMAIN ds |-> IF ds[i].name = name THEN [name |-> name, def |-> def] ELSE ds[i]]
    ELSE Append(ds, [name |-> name, def |-> def])

\* f[key] = val on a dict whose order is never observed
Put(f, key, val) == (key :> val) @@ f

\* type hints
AnyHint == [h |-> "Any"]
PyHint(t) == [h |-> "py", py |-> t]
ClassHint(cid) == [h |-> "class", cid |-> cid]
ListHint(item) == [h |-> "List", item |-> item]
EnumHint(members) == [h |-> "enum", members |-> members]
NoneTypeHint == [h |-> "NoneType"]

\* the sequence xs without the repetitions of an element
RECURSIVE Dedupe(_)
Dedupe(xs) ==
    IF xs = <<>> THEN <<>>
    ELSE LET front == Dedupe(SubSeq(xs, 1, Len(xs) - 1))
             last == xs[Len(xs)]
         IN  IF last \in Range(front) THEN front ELSE Append(front, last)

\* the arguments of a hint seen as a Union (a Union nested in a Union is
\* flattened)
UnionArgs(x) == IF x.h = "Union" THEN x.args ELSE <<x>>
RECURSIVE Flatten(_)
Flatten(xs) == IF xs = <<>> THEN <<>> ELSE UnionArgs(xs[1]) \o Flatten(Tail(xs))

\* typing.Union[tuple(xs)] for a non-empty xs: flattened, without
\* repetitions, and the argument itself when one is left
UnionHint(xs) ==
    LET args == Dedupe(Flatten(xs))
    IN  IF Len(args) = 1 THEN args[1] ELSE [h |-> "Union", args |-> args]

\* typing.Optional[x]
OptionalHint(x) == UnionHint(<<x, NoneTypeHint>>)

\* casters
IdentityCaster == [c |-> "identity"]
PyCaster(t) == [c |-> "py", py |-> t]
FromDictCaster(cid) == [c |-> "from_dict", cid |-> cid]
ClassCaster(cid) == [c |-> "class", cid |-> cid]
ListCaster(item) == [c |-> "list", item |-> item]
DiscriminateCaster(factory) == [c |-> "discriminate", factory |-> factory]
EnumCaster(members) == [c |-> "enum", members |-> members]

\* native_type_mapping[def_type]
NativePython(def_type) ==
    CASE def_type = "string" -> "str"
      [] def_type = "integer" -> "int"
      [] def_type = "number" -> "float"
      [] def_type = "boolean" -> "bool"
      [] def_type = "array" -> "list"
      [] def_type = "object" -> "dict"

(***************************************************************************)
(* Classes.  The classes created by type(...) live in a heap, a sequence   *)
(* of class records; the id of a class is its index.  SchemaObject itself  *)
(* has the id 0 and no record.                                             *)
(***************************************************************************)
SchemaObjectId == 0

NoKwargs == [set |-> FALSE]
KwargsProperty(caster, type_hint) == [set |-> TRUE, caster |-> caster, type_hint |-> type_hint]

\* an inspect.Signature without "self": the positional-or-keyword parameters
\* in order, and whether a **kwargs parameter closes it
Signature(params, var_kw) == [params |-> params, var_kw |-> var_kw]
Param(name, has_default) == [name |-> name, has_default |-> has_default]
ParamNames(sig) == {sig.params[i].name : i \in DOMAIN sig.params}

AttributeError == "AttributeError"

N_kwargs == <<"k","w","a","r","g","s">>
N_self == <<"s","e","l","f">>

\* inspect.Parameter and inspect.Signature reject: a name that is no
\* identifier, a repeated name, a parameter without default after one with
SignatureError(params, var_kw) ==
    \/ \E i \in DOMAIN params : ~IsIdentifier(params[i].name)
    \/ \E i, j \in DOMAIN params : i # j /\ params[i].name = params[j].name
    \/ \E i \in DOMAIN params : params[i].name = N_self
    \/ var_kw /\ \E i \in DOMAIN params : params[i].name = N_kwargs
    \/ \E i, j \in DOMAIN params :
          i < j /\ params[i].has_default /\ ~params[j].has_default

\* the parameters _update_init and _combine_multiinheritance_inits draw from
\* _added_properties
PropertyParams(added) == [i \in DOMAIN added |-> Param(added[i].key, added[i].val.has_default)]

\* the merge step of the C3 linearisation: the first head that is in no
\* tail, 0 - 1 when there is none
C3Heads(seqs) == [i \in DOMAIN seqs |-> seqs[i][1]]
C3Good(seqs) ==
    {i \in DOMAIN seqs : \A j \in DOMAIN seqs : seqs[i][1] \notin Range(Tail(seqs[j]))}
RECURSIVE C3Merge(_)
C3Merge(seqs) ==
    LET live == SelectSeq(seqs, LAMBDA q : q # <<>>)
    IN  IF live = <<>> THEN [ok |-> TRUE, mro |-> <<>>]
        ELSE IF C3Good(live) = {} THEN [ok |-> FALSE, mro |-> <<>>]
        ELSE LET i == CHOOSE m \in C3Good(live) : \A n \in C3Good(live) : m <= n
                 head == live[i][1]
                 rest == C3Merge([j \in DOMAIN live |->
                                    IF live[j][1] = head THEN Tail(live[j]) ELSE live[j]])
             IN  [ok |-> rest.ok, mro |-> <<head>> \o rest.mro]

\* cls.__mro__ without its last two entries (ABC and object)
Mro(classes, cid) == IF cid = SchemaObjectId THEN <<SchemaObjectId>> ELSE classes[cid].mro

\* type(name, bases, {}) followed by SchemaObject.__init_subclass__: the heap
\* with the new class, whose __init__ takes no argument yet
NewClass(classes, name, bases) ==
    LET merged == C3Merge([i \in DOMAIN bases |-> Mro(classes, bases[i])] \o <<bases>>)
    IN  Append(classes,
               [name |-> name,
                bases |-> bases,
                mro |-> <<Len(classes) + 1>> \o merged.mro,
                added_properties |-> <<>>,
                special_names_set |-> {},
                kwargs_property |-> NoKwargs,
                combined |-> FALSE,
                sig |-> Signature(<<>>, FALSE)])

\* type(name, bases, {}) raises TypeError for a repeated base and for bases
\* without a consistent method resolution order
NewClassError(classes, bases) ==
    \/ \E i, j \in DOMAIN bases : i # j /\ bases[i] = bases[j]
    \/ ~C3Merge([i \in DOMAIN bases |-> Mro(classes, bases[i])] \o <<bases>>).ok

(***************************************************************************)
(* definition_registry.py: the registry under construction is a record     *)
(*   definitions            the dict _definitions, as [name, def] entries  *)
(*   type_hints, casters    the dicts _type_hints and _casters             *)
(*   definition_identities  the dict _definition_identities                *)
(*   definition_groups      the defaultdict _definition_groups             *)
(*   classes                the heap of the classes created so far         *)
(* A step that can raise gives Ok(...) with the registry after it, or      *)
(* Fail(exception).                                                        *)
(***************************************************************************)
Ok(reg, type_hint, caster) == [ok |-> TRUE, reg |-> reg, type_hint |-> type_hint, caster |-> caster]
Fail(e) == [ok |-> FALSE, exc |-> e]
\* the step r, followed by Rest(r) unless r raised
Then(r, Rest(_)) == IF r.ok THEN Rest(r) ELSE Fail(r.exc)

Join(a, b) == a \o <<"_">> \o b
N_Item == <<"I","t","e","m">>
N_Parent0 == <<"P","a","r","e","n","t","0">>
\* str(None), where a name is formatted that was not given
N_None == <<"N","o","n","e">>
\* definition_name=None
NoName == <<>>
NameOrNone(name) == IF name = NoName THEN N_None ELSE name

\* self._definition_groups[category], [] for a category without entry
Group(reg, category) ==
    IF category \in DOMAIN reg.definition_groups THEN reg.definition_groups[category] ELSE <<>>

\* type(name, (SchemaObject,), {}) and the five assignments that register
\* the new class under name; its id is Len(reg.classes) + 1
RegisterStub(reg, name, definition, caster) ==
    [reg EXCEPT
        !.classes = NewClass(@, name, <<SchemaObjectId>>),
        !.definitions = DefPut(@, name, definition),
        !.type_hints = Put(@, name, ClassHint(Len(reg.classes) + 1)),
        !.casters = Put(@, name, caster),
        !.definition_identities = Put(@, name, CUSTOM),
        !.definition_groups = Put(@, CUSTOM, Append(Group(reg, CUSTOM), name))]

\* the loop over definition["allOf"] of a conditional polymorph: the type
\* hints of the "then" branches
RECURSIVE ThenHints(_, _, _)
ThenHints(reg, conditions, i) ==
    IF i > Len(conditions) THEN [ok |-> TRUE, hints |-> <<>>]
    ELSE IF ~Has(conditions[i], "then_") THEN Fail(KeyError)
    ELSE LET then_definition == conditions[i].then_
             then_definition_type == identify_definition_type(then_definition)
         IN  IF then_definition_type # PASSTHROUGH THEN Fail(DefinitionUnidentifiedError)
             ELSE IF RefName(then_definition.ref) \notin DOMAIN reg.type_hints
                  THEN Fail(KeyError)
             ELSE Then(ThenHints(reg, conditions, i + 1),
                       LAMBDA rest :
                          [ok |-> TRUE,
                           hints |-> <<reg.type_hints[RefName(then_definition.ref)]>>
                                     \o rest.hints])

\* the loop over definition["allOf"] of a multi-inheritance definition: the
\* parent classes, and the registry with the stubs of the inline parents
\* (undefined_class_count stays 0)
RECURSIVE ParentClasses(_, _, _, _)
ParentClasses(reg, parents, i, definition_name) ==
    IF i > Len(parents) THEN [ok |-> TRUE, reg |-> reg, parent_classes |-> <<>>]
    ELSE LET parent_definition == parents[i]
             parent_definition_type == identify_definition_type(parent_definition)
         IN  IF parent_definition_type = PASSTHROUGH
             THEN IF RefName(parent_definition.ref) \notin DOMAIN reg.type_hints
                  THEN Fail(KeyError)
                  ELSE Then(ParentClasses(reg, parents, i + 1, definition_name),
                            LAMBDA rest :
                               [rest EXCEPT !.parent_classes =
                                   <<reg.type_hints[RefName(parent_definition.ref)]>> \o @])
             ELSE IF parent_definition_type = CUSTOM
             THEN LET new_parent_class_name == Join(NameOrNone(definition_name), N_Parent0)
                      stub == Len(reg.classes) + 1
                  IN  Then(ParentClasses(
                              RegisterStub(reg, new_parent_class_name, parent_definition,
                                           ClassCaster(stub)),
                              parents, i + 1, definition_name),
                           LAMBDA rest :
                              [rest EXCEPT !.parent_classes = <<ClassHint(stub)>> \o @])
             ELSE Fail(DefinitionUnidentifiedError)

\* the loop over the alternatives of a oneOf / anyOf
RECURSIVE UnionHints(_, _, _)
UnionHints(reg, alternatives, i) ==
    IF i > Len(alternatives) THEN [ok |-> TRUE, hints |-> <<>>]
    ELSE LET oneof_definition_type == identify_definition_type(alternatives[i])
         IN  IF oneof_definition_type # PASSTHROUGH THEN Fail(DefinitionUnidentifiedError)
             ELSE IF RefName(alternatives[i].ref) \notin DOMAIN reg.type_hints
                  THEN Fail(KeyError)
             ELSE Then(UnionHints(reg, alternatives, i + 1),
                       LAMBDA rest :
                          [ok |-> TRUE,
                           hints |-> <<reg.type_hints[RefName(alternatives[i].ref)]>>
                                     \o rest.hints])

\* MultiinheritanceClass = type(definition_name, tuple(parent_classes), {}),
\* returned with its from_dict
MultiinheritanceClass(reg, parent_classes, definition_name) ==
    \* a class without a SchemaObject parent has no from_dict and no
    \* _added_properties
    IF parent_classes = <<>> \/ \E i \in DOMAIN parent_classes : parent_classes[i].h # "class"
    THEN Fail(AttributeError)
    ELSE LET bases == [i \in DOMAIN parent_classes |-> parent_classes[i].cid]
             cid == Len(reg.classes) + 1
         IN  IF definition_name = NoName \/ NewClassError(reg.classes, bases)
             THEN Fail(TypeError)
             ELSE Ok([reg EXCEPT !.classes = NewClass(@, definition_name, bases)],
                     ClassHint(cid), FromDictCaster(cid))

\* a faulty variant of ObjectType: the class is created and registered
\* whether or not the name has a type already
ObjectType_fresh(reg, definition, definition_name) ==
    IF definition_name = NoName THEN Fail(TypeError)
    ELSE LET cid == Len(reg.classes) + 1
         IN  Ok(RegisterStub(reg, definition_name, definition, FromDictCaster(cid)),
                ClassHint(cid), FromDictCaster(cid))

\* the branch of an object definition: the type the name has already, or a
\* new class registered under the name and appended to the custom group
ObjectType(reg, definition, definition_name) ==
    IF definition_name \in DOMAIN reg.type_hints
    THEN Ok(reg, reg.type_hints[definition_name], reg.casters[definition_name])
    \* type(None, ...) is a TypeError
    ELSE IF definition_name = NoName THEN Fail(TypeError)
    ELSE LET cid == Len(reg.classes) + 1
         IN  Ok(RegisterStub(reg, definition_name, definition, FromDictCaster(cid)),
                ClassHint(cid), FromDictCaster(cid))

\* a faulty variant of Referenced: a referenced class gets a subclass named
\* after the definition, whose initializer is its own
Referenced_subclass(reg, ref_name, definition_name) ==
    IF reg.type_hints[ref_name].h # "class" \/ definition_name = NoName
    THEN Ok(reg, reg.type_hints[ref_name], reg.casters[ref_name])
    ELSE LET cid == Len(reg.classes) + 1
         IN  Ok([reg EXCEPT !.classes = NewClass(@, definition_name,
                                                 <<reg.type_hints[ref_name].cid>>)],
                ClassHint(cid), FromDictCaster(cid))

\* the "$ref" branch once the name is found: what _type_hints holds is a
\* class or a typing construct, never an instance of SchemaObject, so the
\* type hint and the caster of the referenced definition are returned
Referenced(reg, ref_name, definition_name) ==
    Ok(reg, reg.type_hints[ref_name], reg.casters[ref_name])

\* DefinitionRegistry._create_type_hint_and_caster(definition, definition_name)
create_type_hint_and_caster(reg, definition, definition_name) ==
    IF Falsy(definition) THEN Ok(reg, AnyHint, IdentityCaster)
    ELSE IF Has(definition, "ref")
    THEN LET ref_name == RefName(definition.ref)
         IN  IF ref_name \notin DOMAIN reg.type_hints THEN Fail(KeyError)
             ELSE Referenced(reg, ref_name, definition_name)
    ELSE IF Has(definition, "allOf")
    THEN IF AnyConditional(definition)
         THEN Then(ThenHints(reg, definition.allOf, 1),
                   LAMBDA hs :
                      Then(PolymorphFactory(reg.casters, definition),
                           LAMBDA polymorph_factory :
                              Ok(reg, UnionHint(hs.hints),
                                 DiscriminateCaster(polymorph_factory.val))))
         ELSE Then(ParentClasses(reg, definition.allOf, 1, definition_name),
                   LAMBDA ps : MultiinheritanceClass(ps.reg, ps.parent_classes, definition_name))
    ELSE IF Has(definition, "oneOf") \/ Has(definition, "anyOf")
    THEN Then(UnionHints(reg, IF Has(definition, "oneOf") THEN definition.oneOf
                              ELSE definition.anyOf, 1),
              LAMBDA hs : IF hs.hints = <<>> THEN Fail(TypeError)
                          ELSE Ok(reg, UnionHint(hs.hints), IdentityCaster))
    ELSE IF HasNativeType(definition)
    THEN IF definition.type = "object"
         THEN ObjectType(reg, definition, definition_name)
         ELSE IF definition.type = "array"
         THEN IF ~Has(definition, "items") THEN Fail(KeyError)
              ELSE LET item_definition == definition.items
                       item_definition_type == identify_definition_type(item_definition)
                   IN  IF item_definition_type = PASSTHROUGH
                       THEN IF RefName(item_definition.ref) \notin DOMAIN reg.type_hints
                            THEN Fail(KeyError)
                            ELSE Ok(reg,
                                    ListHint(reg.type_hints[RefName(item_definition.ref)]),
                                    ListCaster(reg.casters[RefName(item_definition.ref)]))
                       ELSE IF item_definition_type = CUSTOM
                       THEN LET cid == Len(reg.classes) + 1
                            IN  Ok(RegisterStub(reg, Join(NameOrNone(definition_name), N_Item),
                                                item_definition, FromDictCaster(cid)),
                                   ListHint(ClassHint(cid)), ListCaster(FromDictCaster(cid)))
                       ELSE Fail(DefinitionUnidentifiedError)
         \* no definition of the model carries a "pattern"
         ELSE Ok(reg, PyHint(NativePython(definition.type)),
                 PyCaster(NativePython(definition.type)))
    ELSE IF Has(definition, "enum")
    THEN Ok(reg, EnumHint(definition.enum), EnumCaster(definition.enum))
    ELSE Fail(DefinitionUnidentifiedError)

(***************************************************************************)
(* The class methods of SchemaObject that the compilation calls.           *)
(***************************************************************************)
Done(reg) == [ok |-> TRUE, reg |-> reg]

\* SchemaObject._update_init: the signature drawn from _added_properties
\* and _kwargs_property; inspect raises ValueError for a signature it
\* rejects
update_init(cls) ==
    IF SignatureError(PropertyParams(cls.added_properties), cls.kwargs_property.set)
    THEN Raised(ValueError)
    ELSE Returned([cls EXCEPT !.sig = Signature(PropertyParams(cls.added_properties),
                                                cls.kwargs_property.set),
                              !.combined = FALSE])

\* cls._added_properties[name] = {caster, type_hint, default}: the class as
\* the assignment leaves it, before _update_init is called
declare_property(cls, name, caster, type_hint, has_default) ==
    [cls EXCEPT !.added_properties =
        DictPut(@, name, [caster |-> caster, type_hint |-> type_hint,
                          has_default |-> has_default])]

\* SchemaObject._add_property(name, caster, type_hint, default)
add_property(cls, name, caster, type_hint, has_default) ==
    update_init(declare_property(cls, name, caster, type_hint, has_default))

\* cls._kwargs_property = {caster, type_hint}
declare_additional_properties(cls, caster, type_hint) ==
    [cls EXCEPT !.kwargs_property = KwargsProperty(caster, type_hint)]

\* SchemaObject._add_additional_properties(caster, type_hint)
add_additional_properties(cls, caster, type_hint) ==
    update_init(declare_additional_properties(cls, caster, type_hint))

\* a faulty variant of SuperClasses: the first parent only
SuperClasses_first(classes, cid) ==
    SubSeq(SelectSeq(Tail(classes[cid].mro), LAMBDA c : c # SchemaObjectId), 1, 1)

\* the classes of cls.__mro__[1:-2] that carry _added_properties (every one
\* but SchemaObject, whose _added_properties is None), in order
SuperClasses(classes, cid) == SelectSeq(Tail(classes[cid].mro), LAMBDA c : c # SchemaObjectId)

\* the parameters and the merged _added_properties collected from the
\* super-classes scs
RECURSIVE CombinedParams(_, _)
CombinedParams(classes, scs) ==
    IF scs = <<>> THEN <<>>
    ELSE PropertyParams(classes[scs[1]].added_properties) \o CombinedParams(classes, Tail(scs))

RECURSIVE DictUpdate(_, _)
DictUpdate(d, e) ==
    IF e = <<>> THEN d ELSE DictUpdate(DictPut(d, e[1].key, e[1].val), Tail(e))

RECURSIVE CombinedProperties(_, _, _)
CombinedProperties(classes, scs, acc) ==
    IF scs = <<>> THEN acc
    ELSE CombinedProperties(classes, Tail(scs),
                            DictUpdate(acc, classes[scs[1]].added_properties))

\* the super-classes with a catch-all, in order
KwargsClasses(classes, scs) == SelectSeq(scs, LAMBDA c : classes[c].kwargs_property.set)

\* SchemaObject._combine_multiinheritance_inits on the class cid
combine_multiinheritance_inits(classes, cid) ==
    LET scs == SuperClasses(classes, cid)
        params == CombinedParams(classes, scs)
        kws == KwargsClasses(classes, scs)
        \* the first super-class with a catch-all adds the "kwargs"
        \* parameter, unless a property has that name; the later ones find
        \* it in the parameters
        var_kw == kws # <<>> /\ \A i \in DOMAIN params : params[i].name # N_kwargs
        kwargs_property == IF var_kw THEN classes[kws[1]].kwargs_property
                           ELSE classes[cid].kwargs_property
    IN  IF SignatureError(params, var_kw) THEN Raised(ValueError)
        ELSE Returned([classes EXCEPT ![cid] =
                [@ EXCEPT !.added_properties = CombinedProperties(classes, scs, <<>>),
                          !.kwargs_property = kwargs_property,
                          !.sig = Signature(params, var_kw),
                          !.combined = TRUE]])

(***************************************************************************)
(* The passes of DefinitionRegistry._initialize_definitions.               *)
(***************************************************************************)
\* the registry DefinitionRegistry.__init__ holds when it calls
\* _initialize_definitions: "$defs" with the root definition under the title
InitialRegistry(schema) ==
    [definitions |-> DefPut(IF Has(schema, "defs") THEN schema.defs ELSE <<>>,
                            schema.title, schema.root),
     type_hints |-> <<>>,
     casters |-> <<>>,
     definition_identities |-> <<>>,
     definition_groups |-> <<>>,
     classes |-> <<>>]

\* the groups filled from the identities, in the order of _definitions
RECURSIVE GroupLoop(_, _, _)
GroupLoop(definitions, i, groups) ==
    IF i > Len(definitions) THEN groups
    ELSE LET category == identify_definition_type(definitions[i].def)
             members == IF category \in DOMAIN groups THEN groups[category] ELSE <<>>
         IN  GroupLoop(definitions, i + 1,
                       Put(groups, category, Append(members, definitions[i].name)))

\* DefinitionRegistry._group_schema_by_definition_type
group_schema_by_definition_type(reg) ==
    IF \E i \in DOMAIN reg.definitions :
          identify_definition_type(reg.definitions[i].def) = DefinitionUnidentifiedError
    THEN Fail(DefinitionUnidentifiedError)
    ELSE Done([reg EXCEPT
            !.definition_identities =
                [n \in DefNames(reg.definitions) |->
                    identify_definition_type(DefGet(reg.definitions, n))],
            !.definition_groups = GroupLoop(reg.definitions, 1, <<>>)])

\* the body of the loop of _add_types_by_group for the i-th name of the
\* group
AddType(reg, definition_type, i) ==
    LET definition_name == Group(reg, definition_type)[i]
    IN  Then(create_type_hint_and_caster(reg, DefGet(reg.definitions, definition_name),
                                         definition_name),
             LAMBDA r :
                Done([r.reg EXCEPT !.type_hints = Put(@, definition_name, r.type_hint),
                                   !.casters = Put(@, definition_name, r.caster)]))

\* DefinitionRegistry._add_types_by_group(definition_type), from the i-th
\* name of the group on; the group can grow while the loop runs
RECURSIVE add_types_by_group(_, _, _)
add_types_by_group(reg, definition_type, i) ==
    IF i > Len(Group(reg, definition_type)) THEN Done(reg)
    ELSE Then(AddType(reg, definition_type, i),
              LAMBDA r : add_types_by_group(r.reg, definition_type, i + 1))

\* definition.get("properties", {})
Properties(definition) == IF Has(definition, "properties") THEN definition.properties ELSE <<>>

\* the inner loop of _add_custom_types_from_props over the properties of
\* one definition
RECURSIVE StubsFromProps(_, _, _, _)
StubsFromProps(reg, definition_name, props, j) ==
    IF j > Len(props) THEN Done(reg)
    ELSE LET prop_def_type == identify_definition_type(props[j].def)
         IN  IF prop_def_type = DefinitionUnidentifiedError
             THEN Fail(DefinitionUnidentifiedError)
             ELSE IF prop_def_type = CUSTOM
             THEN StubsFromProps(
                     RegisterStub(reg, Join(definition_name, pascal_to_snake(props[j].name)),
                                  props[j].def, ClassCaster(Len(reg.classes) + 1)),
                     definition_name, props, j + 1)
             ELSE StubsFromProps(reg, definition_name, props, j + 1)

\* the body of the outer loop of _add_custom_types_from_props for the i-th
\* name of the custom group
StubsOf(reg, i) ==
    StubsFromProps(reg, Group(reg, CUSTOM)[i],
                   Properties(DefGet(reg.definitions, Group(reg, CUSTOM)[i])), 1)

\* DefinitionRegistry._add_custom_types_from_props, from the i-th name of
\* the custom group on
RECURSIVE add_custom_types_from_props(_, _)
add_custom_types_from_props(reg, i) ==
    IF i > Len(Group(reg, CUSTOM)) THEN Done(reg)
    ELSE Then(StubsOf(reg, i), LAMBDA r : add_custom_types_from_props(r.reg, i + 1))

\* utils.split_props_by_required: the required properties, then the others
Required(definition) == IF Has(definition, "required") THEN Range(definition.required) ELSE {}
RequiredProps(definition) ==
    SelectSeq(Properties(definition), LAMBDA p : p.name \in Required(definition))
NonRequiredProps(definition) ==
    SelectSeq(Properties(definition), LAMBDA p : p.name \notin Required(definition))

\* one of the two loops of _add_properties_to_custom_types over the
\* properties props of the class cid
RECURSIVE AddProps(_, _, _, _, _, _)
AddProps(reg, definition_name, cid, props, j, optional) ==
    IF j > Len(props) THEN Done(reg)
    ELSE Then(create_type_hint_and_caster(reg, props[j].def,
                                          Join(definition_name, props[j].name)),
              LAMBDA r :
                 Then(add_property(
                         [r.reg.classes[cid] EXCEPT !.special_names_set =
                             pascal_to_snake_special(props[j].name, @)],
                         pascal_to_snake(props[j].name),
                         r.caster,
                         IF optional THEN OptionalHint(r.type_hint) ELSE r.type_hint,
                         optional),
                      LAMBDA added :
                         AddProps([r.reg EXCEPT !.classes[cid] = added.val],
                                  definition_name, cid, props, j + 1, optional)))

\* the body of the loop of _add_properties_to_custom_types for one name
AddAdditionalProperties(reg, definition, cid) ==
    IF ~Has(definition, "additionalProperties") THEN Done(reg)
    ELSE Then(create_type_hint_and_caster(reg, definition.additionalProperties, NoName),
              LAMBDA r :
                 Then(add_additional_properties(r.reg.classes[cid], r.caster, r.type_hint),
                      LAMBDA added : Done([r.reg EXCEPT !.classes[cid] = added.val])))

AddPropertiesTo(reg, definition_name) ==
    LET definition == DefGet(reg.definitions, definition_name)
        cid == reg.type_hints[definition_name].cid
    IN  Then(AddProps(reg, definition_name, cid, RequiredProps(definition), 1, FALSE),
             LAMBDA r1 :
                Then(AddProps(r1.reg, definition_name, cid, NonRequiredProps(definition),
                              1, TRUE),
                     LAMBDA r2 : AddAdditionalProperties(r2.reg, definition, cid)))

\* DefinitionRegistry._combine_inits_in_multiinheritance, from the i-th
\* name of the multi-inheritance group on
RECURSIVE combine_inits_in_multiinheritance(_, _)
combine_inits_in_multiinheritance(reg, i) ==
    IF i > Len(Group(reg, MULTIINHERITANCE)) THEN Done(reg)
    ELSE Then(combine_multiinheritance_inits(
                 reg.classes, reg.type_hints[Group(reg, MULTIINHERITANCE)[i]].cid),
              LAMBDA r : combine_inits_in_multiinheritance([reg EXCEPT !.classes = r.val],
                                                           i + 1))

\* a faulty variant of add_properties_to_custom_types: the loop runs over the
\* names the custom group holds when it starts, so that a stub registered
\* while it runs is never bound
RECURSIVE BindListed(_, _, _)
BindListed(reg, names, i) ==
    IF i > Len(names) THEN combine_inits_in_multiinheritance(reg, 1)
    ELSE Then(AddPropertiesTo(reg, names[i]),
              LAMBDA r : BindListed(r.reg, names, i + 1))
add_properties_to_custom_types_listed(reg, i) == BindListed(reg, Group(reg, CUSTOM), i)

\* DefinitionRegistry._add_properties_to_custom_types, from the i-th name of
\* the custom group on, with the combination of the inits that closes it
RECURSIVE add_properties_to_custom_types(_, _)
add_properties_to_custom_types(reg, i) ==
    IF i > Len(Group(reg, CUSTOM)) THEN combine_inits_in_multiinheritance(reg, 1)
    ELSE Then(AddPropertiesTo(reg, Group(reg, CUSTOM)[i]),
              LAMBDA r : add_properties_to_custom_types(r.reg, i + 1))

\* the order in which _initialize_definitions adds the groups
GroupOrder == <<NATIVE, ENUM, CUSTOM, PASSTHROUGH, MULTIINHERITANCE, LIST, UNION_, POLYMORPH>>

(***************************************************************************)
(* The runtime protocol of the compiled classes.  from_dict changes the    *)
(* class it is called on (pascal_to_snake fills _special_names_set), so a  *)
(* call gives the heap of classes after it with its outcome.               *)
(***************************************************************************)
Out(classes, out) == [classes |-> classes, out |-> out]
\* the call r, followed by Rest(r) unless r raised
ThenOut(r, Rest(_)) == IF r.out.ok THEN Rest(r) ELSE r
\* the same for a call that leaves the classes alone
ThenReturned(r, Rest(_)) == IF r.ok THEN Rest(r) ELSE r
\* what replacement_init_function makes of the outcome r of a caster:
\* ValueError and TypeError are raised again as a TypeError whose text is
\* composed from name, expected_type and the value handed to the caster
CastOrTypeError(r, name, expected_type, value) ==
    IF r.out.ok \/ r.out.exc \notin {ValueError, TypeError} THEN r
    ELSE Out(r.classes, RaisedWith(TypeError, ArgumentText(name, expected_type, value)))

\* the decimal numerals int() and float() parse in the model
Numerals == 0 .. 9
IsNumeral(s) == \E n \in Numerals : ToString(n) = s
NumeralValue(s) == CHOOSE n \in Numerals : ToString(n) = s

\* str(value): the text of an int is computed, the text of any other value
\* is kept as the value it renders
PyStr(value) ==
    CASE value.k = "str" -> value
      [] value.k = "int" -> StrV(ToString(value.i))
      [] OTHER -> [k |-> "str", repr |-> value]

\* int(value), float(value), bool(value)
PyInt(value) ==
    CASE value.k = "int" -> Returned(value)
      [] value.k = "float" -> Returned(IntV(value.f))
      [] value.k = "bool" -> Returned(IntV(IF value.b THEN 1 ELSE 0))
      [] value.k = "str" ->
            IF Has(value, "s") /\ IsNumeral(value.s)
            THEN Returned(IntV(NumeralValue(value.s))) ELSE Raised(ValueError)
      [] OTHER -> Raised(TypeError)
PyFloat(value) ==
    CASE value.k = "float" -> Returned(value)
      [] value.k = "int" -> Returned(FloatV(value.i))
      [] value.k = "bool" -> Returned(FloatV(IF value.b THEN 1 ELSE 0))
      [] value.k = "str" ->
            IF Has(value, "s") /\ IsNumeral(value.s)
            THEN Returned(FloatV(NumeralValue(value.s))) ELSE Raised(ValueError)
      [] OTHER -> Raised(TypeError)
PyBool(value) ==
    CASE value.k = "none" -> BoolV(FALSE)
      [] value.k = "bool" -> value
      [] value.k = "int" -> BoolV(value.i # 0)
      [] value.k = "float" -> BoolV(value.f # 0)
      [] value.k = "str" -> BoolV(~(Has(value, "s") /\ value.s = ""))
      [] value.k = "list" -> BoolV(value.items # <<>>)
      [] value.k = "dict" -> BoolV(value.entries # <<>>)
      [] OTHER -> BoolV(TRUE)

\* the answer of an instance check: it raised TypeError, or it said yes/no
Answer(b) == [raised |-> FALSE, yes |-> b]
CheckRaised == [raised |-> TRUE, yes |-> FALSE]

\* isinstance(obj, type_hint)
RECURSIVE isinstance(_, _, _)
isinstance(classes, obj, type_hint) ==
    CASE type_hint.h = "py" ->
            Answer(CASE type_hint.py = "str" -> obj.k = "str"
                     [] type_hint.py = "int" -> obj.k \in {"int", "bool"}
                     [] type_hint.py = "float" -> obj.k = "float"
                     [] type_hint.py = "bool" -> obj.k = "bool"
                     [] type_hint.py = "list" -> obj.k = "list"
                     [] type_hint.py = "dict" -> obj.k = "dict")
      [] type_hint.h = "class" ->
            Answer(obj.k = "obj" /\ type_hint.cid \in Range(Mro(classes, obj.cid)))
      [] type_hint.h = "NoneType" -> Answer(obj.k = "none")
      [] type_hint.h = "enum" -> Answer(obj.k = "enum" /\ obj.of = type_hint.members)
      [] type_hint.h = "Union" ->
            LET answers == [i \in DOMAIN type_hint.args |->
                               isinstance(classes, obj, type_hint.args[i])]
            IN  IF \E i \in DOMAIN answers : answers[i].raised THEN CheckRaised
                ELSE Answer(\E i \in DOMAIN answers : answers[i].yes)
      \* typing.Any and a subscripted generic cannot be used with isinstance
      [] OTHER -> CheckRaised

\* any(...) over the answers, in order: the first yes ends it, a raise
\* before it is raised
RECURSIVE AnyOf(_)
AnyOf(answers) ==
    IF answers = <<>> THEN Answer(FALSE)
    ELSE IF answers[1].raised THEN CheckRaised
    ELSE IF answers[1].yes THEN Answer(TRUE)
    ELSE AnyOf(Tail(answers))

\* all(...) over the answers, in order
RECURSIVE AllOf(_)
AllOf(answers) ==
    IF answers = <<>> THEN Answer(TRUE)
    ELSE IF answers[1].raised THEN CheckRaised
    ELSE IF ~answers[1].yes THEN Answer(FALSE)
    ELSE AllOf(Tail(answers))

\* utils.is_instance(obj, type_hint); a TypeError is raised again
RECURSIVE is_instance(_, _, _)
is_instance(classes, obj, type_hint) ==
    IF type_hint.h = "Any" THEN Answer(TRUE)
    ELSE IF type_hint.h = "Union"
    THEN AnyOf([i \in DOMAIN type_hint.args |-> is_instance(classes, obj, type_hint.args[i])])
    ELSE IF type_hint.h = "List" /\ obj.k = "list"
    THEN AllOf([i \in DOMAIN obj.items |-> isinstance(classes, obj.items[i], type_hint.item)])
    ELSE isinstance(classes, obj, type_hint)

\* a faulty variant of Bind: a missing argument is bound to None whether or not its
\* parameter has a default
Bind_defaults(sig, args, kwargs) ==
    LET n == Len(sig.params)
        positional == {sig.params[i].name : i \in 1 .. (IF Len(args) < n THEN Len(args) ELSE n)}
        Value(i) == IF i <= Len(args) THEN args[i]
                    ELSE IF sig.params[i].name \in DictKeys(kwargs)
                         THEN DictGet(kwargs, sig.params[i].name)
                    ELSE None
    IN  IF \/ Len(args) > n
           \/ DictKeys(kwargs) \cap positional # {}
           \/ ~sig.var_kw /\ ~(DictKeys(kwargs) \subseteq ParamNames(sig))
        THEN Raised(TypeError)
        ELSE Returned([arguments |-> [i \in 1 .. n |->
                                        [key |-> sig.params[i].name, val |-> Value(i)]],
                       kwargs |-> SelectSeq(kwargs,
                                            LAMBDA e : e.key \notin ParamNames(sig))])

\* new_sig.bind(self, *args, **kwargs) and apply_defaults(): TypeError, or
\* the arguments in the order of the parameters with the extra keywords
Bind(sig, args, kwargs) ==
    LET n == Len(sig.params)
        positional == {sig.params[i].name : i \in 1 .. (IF Len(args) < n THEN Len(args) ELSE n)}
        Value(i) == IF i <= Len(args) THEN args[i]
                    ELSE IF sig.params[i].name \in DictKeys(kwargs)
                         THEN DictGet(kwargs, sig.params[i].name)
                    ELSE None
    IN  IF \/ Len(args) > n
           \/ DictKeys(kwargs) \cap positional # {}
           \/ ~sig.var_kw /\ ~(DictKeys(kwargs) \subseteq ParamNames(sig))
           \/ \E i \in DOMAIN sig.params :
                 /\ i > Len(args)
                 /\ sig.params[i].name \notin DictKeys(kwargs)
                 /\ ~sig.params[i].has_default
        THEN Raised(TypeError)
        ELSE Returned([arguments |-> [i \in 1 .. n |->
                                        [key |-> sig.params[i].name, val |-> Value(i)]],
                       kwargs |-> SelectSeq(kwargs,
                                            LAMBDA e : e.key \notin ParamNames(sig))])

\* IdDescriptionEnum.from_dict: the first member with the Id
EnumMember(members, id) ==
    IF \A i \in DOMAIN members : members[i].Id # id THEN Raised(ValueError)
    ELSE Returned([k |-> "enum", of |-> members,
                   member |-> members[CHOOSE i \in DOMAIN members :
                                         /\ members[i].Id = id
                                         /\ \A j \in 1 .. (i - 1) : members[j].Id # id]])

\* a faulty variant of SuperKwargs: every bound argument goes to every
\* super-class
SuperKwargs_all(classes, sc, arguments, kwargs) ==
    arguments \o (IF sc = SchemaObjectId \/ classes[sc].sig.var_kw THEN kwargs ELSE <<>>)

\* super_kwargs, the keyword arguments the combined init hands to the
\* __init__ of the super-class sc: the bound arguments its signature names,
\* and the extra keywords if it takes **kwargs (SchemaObject.__init__ takes
\* **kwargs only)
SuperKwargs(classes, sc, arguments, kwargs) ==
    LET sig == IF sc = SchemaObjectId THEN Signature(<<>>, TRUE) ELSE classes[sc].sig
    IN  SelectSeq(arguments, LAMBDA e : e.key \in ParamNames(sig))
        \o (IF sig.var_kw THEN kwargs ELSE <<>>)

\* the calls supercls.__init__(self, **super_kwargs) the loop of the
\* combined init makes when none of them raises, in order
SuperCalls(classes, scs, arguments, kwargs) ==
    [i \in DOMAIN scs |->
        [cls |-> scs[i], kwargs |-> SuperKwargs(classes, scs[i], arguments, kwargs)]]

RECURSIVE cast(_, _, _)
RECURSIVE cast_items(_, _, _, _)
RECURSIVE from_dict(_, _, _)
RECURSIVE construct(_, _, _, _)
RECURSIVE init(_, _, _, _, _)
RECURSIVE AssignArguments(_, _, _, _, _)
RECURSIVE AssignKwargs(_, _, _, _, _)
RECURSIVE SuperInits(_, _, _, _, _)
RECURSIVE Checked(_, _, _, _)
RECURSIVE AfterCheck(_, _, _, _, _)

\* the test-and-cast step of replacement_init_function for one value: None
\* and a value of the expected type are kept, another value goes through
\* the caster
\* (is_instance is called outside the try block: what it raises leaves the
\* initializer as it is; name is the name the text of a failed cast quotes)
AfterCheck(classes, name, property, value, check) ==
    IF check.raised THEN Out(classes, Raised(TypeError))
    ELSE IF check.yes THEN Out(classes, Returned(value))
    ELSE CastOrTypeError(cast(classes, property.caster, value),
                         name, property.type_hint, value)

Checked(classes, name, property, value) ==
    IF value = None THEN Out(classes, Returned(value))
    ELSE AfterCheck(classes, name, property, value,
                    is_instance(classes, value, property.type_hint))

\* caster(value)
cast(classes, caster, value) ==
    CASE caster.c = "identity" -> Out(classes, Returned(value))
      [] caster.c = "py" ->
            Out(classes,
                CASE caster.py = "str" -> Returned(PyStr(value))
                  [] caster.py = "int" -> PyInt(value)
                  [] caster.py = "float" -> PyFloat(value)
                  [] caster.py = "bool" -> Returned(PyBool(value)))
      [] caster.c = "from_dict" -> from_dict(classes, caster.cid, value)
      [] caster.c = "class" -> construct(classes, caster.cid, <<value>>, <<>>)
      \* the list caster is applied to lists only: is_instance raises for
      \* another value before the caster is tried
      [] caster.c = "list" ->
            IF value.k = "list" THEN cast_items(classes, caster.item, value.items, <<>>)
            ELSE Out(classes, Raised(TypeError))
      [] caster.c = "discriminate" ->
            IF value.k # "dict" THEN Out(classes, Raised(TypeError))
            ELSE ThenOut(Out(classes, discriminate(caster.factory, value.entries)),
                         LAMBDA r : cast(classes, r.out.val.caster, DictV(r.out.val.arg)))
      [] caster.c = "enum" ->
            IF value.k # "dict" THEN Out(classes, Raised(TypeError))
            ELSE IF <<"I","d">> \notin DictKeys(value.entries) THEN Out(classes, Raised(KeyError))
            ELSE Out(classes, EnumMember(caster.members, DictGet(value.entries, <<"I","d">>)))

\* [item_caster(a) for a in x]
cast_items(classes, item_caster, items, done) ==
    IF items = <<>> THEN Out(classes, Returned(ListV(done)))
    ELSE ThenOut(cast(classes, item_caster, items[1]),
                 LAMBDA r : cast_items(r.classes, item_caster, Tail(items),
                                       Append(done, r.out.val)))

\* the first loop of replacement_init_function: test, cast and set the
\* arguments arguments[j..] on the instance whose __dict__ is attrs
AssignArguments(classes, cid, attrs, arguments, j) ==
    IF j > Len(arguments) THEN Out(classes, Returned(attrs))
    ELSE LET name == arguments[j].key
             value == arguments[j].val
             property == DictGet(classes[cid].added_properties, name)
         IN  ThenOut(Checked(classes, name, property, value),
                     LAMBDA r : AssignArguments(r.classes, cid,
                                                DictPut(attrs, name, r.out.val),
                                                arguments, j + 1))

\* a faulty variant of AssignKwargs: the extra keywords are stored as they came
AssignKwargs_raw(classes, cid, attrs, kwargs, j) ==
    Out(classes, Returned(DictUpdate(attrs, kwargs)))

\* the second loop: the extra keywords, cast by the catch-all caster and
\* stored in the __dict__ under their key.  The loop variable is key; the
\* text of a failed cast quotes name, the variable of the first loop, which
\* that loop left at the last bound argument, "kwargs"
AssignKwargs(classes, cid, attrs, kwargs, j) ==
    IF j > Len(kwargs) THEN Out(classes, Returned(attrs))
    ELSE ThenOut(Checked(classes, N_kwargs, classes[cid].kwargs_property, kwargs[j].val),
                 LAMBDA r : AssignKwargs(r.classes, cid,
                                         DictPut(attrs, kwargs[j].key, r.out.val),
                                         kwargs, j + 1))

\* the loop of the combined init over cls.__mro__[1:-2]: each super-class
\* __init__ is called with the arguments its signature names, and with the
\* extra keywords if it takes **kwargs
SuperInits(classes, scs, attrs, arguments, kwargs) ==
    IF scs = <<>> THEN Out(classes, Returned(attrs))
    ELSE IF scs[1] = SchemaObjectId
    \* SchemaObject.__init__(self, **kwargs): pass
    THEN SuperInits(classes, Tail(scs), attrs, arguments, kwargs)
    ELSE ThenOut(init(classes, scs[1], attrs, <<>>,
                      SuperKwargs(classes, scs[1], arguments, kwargs)),
                 LAMBDA r : SuperInits(r.classes, Tail(scs), r.out.val,
                                       arguments, kwargs))

\* cid.__init__(self, *args, **kwargs) on the instance whose __dict__ is
\* attrs: the __dict__ after it
init(classes, cid, attrs, args, kwargs) ==
    ThenOut(Out(classes, Bind(classes[cid].sig, args, kwargs)),
            LAMBDA bound :
               IF classes[cid].combined
               THEN SuperInits(classes, Tail(classes[cid].mro), attrs,
                               bound.out.val.arguments, bound.out.val.kwargs)
               ELSE ThenOut(AssignArguments(classes, cid, attrs, bound.out.val.arguments, 1),
                            LAMBDA r :
                               IF classes[cid].sig.var_kw /\ classes[cid].kwargs_property.set
                               THEN AssignKwargs(r.classes, cid, r.out.val,
                                                 bound.out.val.kwargs, 1)
                               ELSE r))

\* cls(*args, **kwargs) for the class cid
construct(classes, cid, args, kwargs) ==
    ThenOut(init(classes, cid, <<>>, args, kwargs),
            LAMBDA r : Out(r.classes, Returned(ObjV(cid, r.out.val))))

\* the set _special_names_set after the keys of entries went through
\* pascal_to_snake
RECURSIVE SpecialAfter(_, _)
SpecialAfter(entries, special) ==
    IF entries = <<>> THEN special
    ELSE SpecialAfter(Tail(entries), pascal_to_snake_special(entries[1].key, special))

\* {pascal_to_snake(k, ...): v for k, v in data_dict.items()}
RECURSIVE SnakeKeys(_, _)
SnakeKeys(entries, acc) ==
    IF entries = <<>> THEN acc
    ELSE SnakeKeys(Tail(entries), DictPut(acc, pascal_to_snake(entries[1].key), entries[1].val))

\* except TypeError as e: raise TypeError(f"Error while constructing
\* {cls.__name__}: {str(e)}") from e
WhileConstructing(r, cls_name) ==
    IF r.out.ok \/ r.out.exc # TypeError THEN r
    ELSE Out(r.classes, RaisedWith(TypeError, ConstructingText(cls_name, TextOf(r.out))))

\* SchemaObject.from_dict on the class cid
from_dict(classes, cid, data_dict) ==
    IF data_dict.k # "dict" THEN Out(classes, Raised(AttributeError))
    ELSE WhileConstructing(
            construct([classes EXCEPT ![cid].special_names_set =
                          SpecialAfter(data_dict.entries, @)],
                      cid, <<>>, SnakeKeys(data_dict.entries, <<>>)),
            classes[cid].name)

\* SchemaObject.to_dict, and IdDescriptionEnum.to_dict for an enum member
RECURSIVE to_dict(_, _)
RECURSIVE ToDictEntries(_, _, _, _)
RECURSIVE ToDictItems(_, _, _)
ToDictItems(classes, items, done) ==
    IF items = <<>> THEN Returned(ListV(done))
    ELSE IF items[1].k \notin {"obj", "enum"} THEN Raised(AttributeError)
    ELSE ThenReturned(to_dict(classes, items[1]),
                      LAMBDA r : ToDictItems(classes, Tail(items), Append(done, r.val)))

ToDictEntries(classes, special, attrs, result) ==
    IF attrs = <<>> THEN Returned(DictV(result))
    ELSE LET value == attrs[1].val
         IN  ThenReturned(
                IF value.k \in {"obj", "enum"} THEN to_dict(classes, value)
                ELSE IF value.k = "list" /\ value.items # <<>> /\ value.items[1].k = "obj"
                     THEN ToDictItems(classes, value.items, <<>>)
                ELSE Returned(value),
                LAMBDA r : ToDictEntries(classes, special, Tail(attrs),
                                         DictPut(result, snake_to_pascal(attrs[1].key, special),
                                                 r.val)))

to_dict(classes, self) ==
    IF self.k = "enum"
    THEN Returned(DictV(<<[key |-> <<"I","d">>, val |-> self.member.Id],
                          [key |-> <<"D","e","s","c","r","i","p","t","i","o","n">>,
                           val |-> self.member.Description]>>))
    ELSE ToDictEntries(classes, classes[self.cid].special_names_set, self.attrs, <<>>)

(***************************************************************************)
(* State.                                                                  *)
(***************************************************************************)
VARIABLES
    cdef,          \* the definition handed to the classifiers
    ccat,          \* what DefinitionRegistry._identify_definition_type gave
    clegacy,       \* what initialise_classes.identify_definition_type gave
    pfDefinition,  \* the definition a PolymorphFactory is built from
    pfData,        \* the data_dict handed to discriminate
    pfFactory,     \* the PolymorphFactory, once built
    pfOutcome,     \* what PolymorphFactory(...).discriminate(data) came to
    pfCalls,       \* the calls the registry's casters received, in order
    schema,        \* the schema handed to DefinitionRegistry(schema)
    registry,      \* the DefinitionRegistry under construction
    phase,         \* where DefinitionRegistry.__init__ stands
    cursor,        \* the index in GroupOrder of the next group to add
    failure,       \* the exception that ended the construction, "" if none
    call,          \* the runtime call made on a compiled class
    made,          \* the outcome of that call: the instance x, or the exception
    dumped,        \* the outcome of x.to_dict()
    reread,        \* the outcome of T.from_dict(x.to_dict())
    message,       \* str(e) of the exception the call raised
    inits,         \* the calls the combined initializer of T made, if it returned
    nName,         \* the name handed to the case conversions
    nSpecial,      \* the special_names_set handed to them
    nForth,        \* pascal_to_snake, then snake_to_pascal of its result
    nBack,         \* snake_to_pascal, then pascal_to_snake of its result
    sCls,          \* a class that _add_property is called on directly
    sCalls,        \* the calls made on it so far, in order
    sLast,         \* how the last of them ended
    position       \* the index, in the list a pass iterates, of its next entry

classifyVars == <<cdef, ccat, clegacy>>
polyVars == <<pfDefinition, pfData, pfFactory, pfOutcome, pfCalls>>
compileVars == <<schema, registry, phase, cursor, failure>>
runVars == <<call, made, dumped, reread, message, inits>>
nameVars == <<nName, nSpecial, nForth, nBack>>
\* the variables of the checks of single functions
sigVars == <<sCls, sCalls, sLast>>
passVars == <<position>>
auxVars == <<nameVars, sigVars, passVars>>
vars == <<classifyVars, polyVars, compileVars, runVars, auxVars>>

Pending == "pending"
\* a call not made yet, an object not built yet
NotYet == [k |-> "pending"]

ClassifyIdle == cdef = EmptyDef /\ ccat = Pending /\ clegacy = Pending
PolyIdle ==
    /\ pfDefinition = EmptyDef /\ pfData = <<>> /\ pfFactory = NotYet
    /\ pfOutcome = NotYet /\ pfCalls = <<>>
RegistryIdle ==
    /\ schema = EmptyDef /\ registry = NotYet /\ phase = Pending
    /\ cursor = 1 /\ failure = ""
    /\ call = NotYet /\ made = NotYet /\ dumped = NotYet /\ reread = NotYet
    /\ message = OtherText /\ inits = <<>>
NamesIdle == nName = <<>> /\ nSpecial = {} /\ nForth = NotYet /\ nBack = NotYet
SigIdle == sCls = NotYet /\ sCalls = <<>> /\ sLast = Pending
PassIdle == position = 1
AuxIdle == NamesIdle /\ SigIdle /\ PassIdle

(***************************************************************************)
(* Bounds of the model.                                                    *)
(***************************************************************************)
MaxAllOf == 2        \* the elements of an "allOf" handed to the classifiers
MaxMapping == 2      \* the entries of a discriminator mapping
MaxConditions == 2   \* the if/then conditions of a polymorph definition
MaxExtras == 1       \* the keyword arguments of a call that no property declares
MaxNameLen == 3      \* the characters of a name handed to the case conversions
MaxCalls == 3        \* the calls of _add_property / _add_additional_properties on a class

\* the sequences over S of length at most n
RECURSIVE SeqsUpTo(_, _)
SeqsUpTo(S, n) ==
    IF n = 0 THEN {<<>>}
    ELSE LET T == SeqsUpTo(S, n - 1)
         IN  T \cup {Append(t, x) : t \in {u \in T : Len(u) = n - 1}, x \in S}

(***************************************************************************)
(* The classifiers, applied to every shape of a bounded family.            *)
(***************************************************************************)
RoleIs(v, target) ==
    [if_ |-> [properties |-> <<[name |-> N_role, def |-> [const |-> StrV(v)]]>>],
     then_ |-> [ref |-> RefTo(target)]]

\* the elements an "allOf" list is drawn from
AllOfElements ==
    { RoleIs("employee", N_Employee),
      [if_ |-> [properties |-> <<>>]],
      [ref |-> RefTo(N_Employee)],
      [type |-> "object"] }

Discriminator(prop, mapping) == [propertyName |-> prop, mapping |-> mapping]

\* one optional key: absent, or present with one of the values
Optional(key, values) == {EmptyDef} \cup {key :> v : v \in values}

ClassifierDefs ==
    { a @@ b @@ c @@ d @@ e @@ f @@ g :
        a \in Optional("ref", {RefTo(N_Employee)}),
        b \in Optional("allOf", SeqsUpTo(AllOfElements, MaxAllOf)),
        c \in Optional("oneOf", {<<[ref |-> RefTo(N_Employee)]>>}),
        d \in Optional("anyOf", {<<[ref |-> RefTo(N_Manager)]>>}),
        e \in Optional("discriminator", {Discriminator(N_role, <<>>)}),
        f \in Optional("type", native_type_mapping \cup {"undefinedType"}),
        g \in Optional("enum", {<<>>}) }

ClassifyInit ==
    /\ cdef \in ClassifierDefs
    /\ ccat = Pending /\ clegacy = Pending
    /\ PolyIdle /\ RegistryIdle /\ AuxIdle

\* registry._identify_definition_type(cdef)
Classify ==
    /\ ccat = Pending
    /\ ccat' = identify_definition_type(cdef)
    /\ UNCHANGED <<auxVars, cdef, clegacy, polyVars, compileVars, runVars>>

\* initialise_classes.identify_definition_type(cdef)
LegacyClassify ==
    /\ clegacy = Pending
    /\ clegacy' = legacy_identify_definition_type(cdef)
    /\ UNCHANGED <<auxVars, cdef, ccat, polyVars, compileVars, runVars>>

ClassifyNext == Classify \/ LegacyClassify

SpecClassify == ClassifyInit /\ [][ClassifyNext]_vars

(***************************************************************************)
(* PolymorphFactory(registry, definition).discriminate(data).              *)
(***************************************************************************)
\* the registry's casters, as in the unit test: one recording stub per
\* registered definition; Intern is not registered
MockCaster(name) == [k |-> "mock", name |-> name]
PolyCasters == [n \in {N_Employee, N_Manager} |-> MockCaster(n)]

MappingEntries ==
    { [value |-> StrV(v), ref |-> RefTo(n)] :
        v \in {"employee", "manager"}, n \in {N_Employee, N_Manager, N_Intern} }

KeyedDefs ==
    { [oneOf |-> <<[ref |-> RefTo(N_Employee)], [ref |-> RefTo(N_Manager)]>>,
       discriminator |-> Discriminator(p, m)] :
        p \in {N_role, N_kind},
        m \in {q \in SeqsUpTo(MappingEntries, MaxMapping) :
                  \A i, j \in DOMAIN q : q[i].value = q[j].value => i = j} }

Conditions ==
    { [if_ |-> [properties |-> <<[name |-> p, def |-> [const |-> StrV(v)]]>>],
       then_ |-> [ref |-> RefTo(n)]] :
        p \in {N_role, N_kind}, v \in {"employee", "manager"},
        n \in {N_Employee, N_Manager} }

ConditionalDefs ==
    { [allOf |-> cs] : cs \in SeqsUpTo(Conditions, MaxConditions) \ {<<>>} }

PolyData ==
    { r \o q :
        r \in {<<>>} \cup {<<[key |-> N_role, val |-> v]>> :
                              v \in {StrV("employee"), StrV("manager"), StrV("intern"), IntV(1)}},
        q \in {<<>>} \cup {<<[key |-> N_kind, val |-> v]>> :
                              v \in {StrV("employee"), StrV("manager")}} }

PolyInit ==
    /\ pfDefinition \in KeyedDefs \cup ConditionalDefs
    /\ pfData \in PolyData
    /\ pfFactory = NotYet /\ pfOutcome = NotYet /\ pfCalls = <<>>
    /\ ClassifyIdle /\ RegistryIdle /\ AuxIdle

\* factory = PolymorphFactory(registry, pfDefinition)
BuildFactory ==
    /\ pfFactory = NotYet /\ pfOutcome = NotYet
    /\ LET r == PolymorphFactory(PolyCasters, pfDefinition)
       IN  IF r.ok
           THEN pfFactory' = r.val /\ pfOutcome' = pfOutcome
           ELSE pfFactory' = pfFactory /\ pfOutcome' = r
    /\ UNCHANGED <<auxVars, pfDefinition, pfData, pfCalls, classifyVars, compileVars, runVars>>

\* factory.discriminate(pfData); the caster chosen is called and what it
\* returns is returned
Discriminate ==
    /\ pfFactory # NotYet /\ pfOutcome = NotYet
    /\ LET r == discriminate(pfFactory, pfData)
       IN  IF r.ok
           THEN /\ pfCalls' = Append(pfCalls, r.val)
                /\ pfOutcome' = Returned([k |-> "made", by |-> r.val.caster.name,
                                          from |-> r.val.arg])
           ELSE pfCalls' = pfCalls /\ pfOutcome' = r
    /\ UNCHANGED <<auxVars, pfDefinition, pfData, pfFactory, classifyVars, compileVars, runVars>>

PolyNext == BuildFactory \/ Discriminate

SpecPoly == PolyInit /\ [][PolyNext]_vars

(***************************************************************************)
(* utils.pascal_to_snake and utils.snake_to_pascal, applied one after the  *)
(* other to every name of a bounded family.                                *)
(***************************************************************************)
\* the characters the names are made of: a lower-case letter, an upper-case
\* letter, a digit, the underscore
NameChars == {"a", "B", "1", "_"}
Names == SeqsUpTo(NameChars, MaxNameLen)

\* the special names sets tried with a name: the empty set, the name itself
\* registered, another name registered
SpecialSets(name) == {{}, {name}, {<<"a", "_", "B">>}}

NamesInit ==
    /\ nName \in Names
    /\ nSpecial \in SpecialSets(nName)
    /\ nForth = NotYet /\ nBack = NotYet
    /\ ClassifyIdle /\ PolyIdle /\ RegistryIdle /\ SigIdle /\ PassIdle

\* snake = pascal_to_snake(nName, S); pascal = snake_to_pascal(snake, S),
\* with the set S as the first call left it
SnakeThenPascal ==
    /\ nForth = NotYet
    /\ nForth' = [snake |-> pascal_to_snake(nName),
                  special |-> pascal_to_snake_special(nName, nSpecial),
                  pascal |-> snake_to_pascal(pascal_to_snake(nName),
                                             pascal_to_snake_special(nName, nSpecial))]
    /\ UNCHANGED <<nName, nSpecial, nBack, sigVars, passVars, classifyVars, polyVars, compileVars, runVars>>

\* pascal = snake_to_pascal(nName, S); snake = pascal_to_snake(pascal, S)
PascalThenSnake ==
    /\ nBack = NotYet
    /\ nBack' = [pascal |-> snake_to_pascal(nName, nSpecial),
                 snake |-> pascal_to_snake(snake_to_pascal(nName, nSpecial)),
                 special |-> pascal_to_snake_special(snake_to_pascal(nName, nSpecial),
                                                     nSpecial)]
    /\ UNCHANGED <<nName, nSpecial, nForth, sigVars, passVars, classifyVars, polyVars, compileVars, runVars>>

NamesNext == SnakeThenPascal \/ PascalThenSnake

SpecNames == NamesInit /\ [][NamesNext]_vars

(***************************************************************************)
(* SchemaObject._add_property and _add_additional_properties, called in    *)
(* any order on a fresh subclass of SchemaObject.                          *)
(***************************************************************************)
N_T == <<"T">>
N_a == <<"a">>
N_b == <<"b">>
PropertyNames == {N_a, N_b}
PythonTypes == {"str", "int"}

SignatureInit ==
    /\ sCls = NewClass(<<>>, N_T, <<SchemaObjectId>>)[1]
    /\ sCalls = <<>> /\ sLast = Pending
    /\ ClassifyIdle /\ PolyIdle /\ RegistryIdle /\ NamesIdle /\ PassIdle

\* how a call that went through update_init ended, and the class it left:
\* when _update_init raises, the assignment made before it stays
CallEnds(r, assigned) ==
    /\ sCls' = IF r.ok THEN r.val ELSE assigned
    /\ sLast' = IF r.ok THEN "returned" ELSE r.exc
    /\ UNCHANGED <<nameVars, passVars, classifyVars, polyVars, compileVars, runVars>>

\* T._add_property(name, caster, type_hint) or, with has_default,
\* T._add_property(name, caster, type_hint, default=None)
AddProperty ==
    /\ sCls # NotYet /\ Len(sCalls) < MaxCalls
    /\ \E name \in PropertyNames, t \in PythonTypes, has_default \in BOOLEAN :
          /\ sCalls' = Append(sCalls, [op |-> "property", name |-> name, py |-> t,
                                       has_default |-> has_default])
          /\ CallEnds(add_property(sCls, name, PyCaster(t), PyHint(t), has_default),
                      declare_property(sCls, name, PyCaster(t), PyHint(t), has_default))

\* T._add_additional_properties(caster, type_hint)
AddAdditional ==
    /\ sCls # NotYet /\ Len(sCalls) < MaxCalls
    /\ \E t \in PythonTypes :
          /\ sCalls' = Append(sCalls, [op |-> "additional", name |-> N_kwargs, py |-> t,
                                       has_default |-> FALSE])
          /\ CallEnds(add_additional_properties(sCls, PyCaster(t), PyHint(t)),
                      declare_additional_properties(sCls, PyCaster(t), PyHint(t)))

SignatureNext == AddProperty \/ AddAdditional

SpecSignature == SignatureInit /\ [][SignatureNext]_vars


(***************************************************************************)
(* DefinitionRegistry(schema), then the runtime protocol on its classes.   *)
(***************************************************************************)
N_Person == <<"P","e","r","s","o","n">>
N_Employee_ == <<"E","m","p","l","o","y","e","e">>
N_Root == <<"R","o","o","t">>
N_Probe == <<"P","r","o","b","e">>
N_Name == <<"N","a","m","e">>
N_aB == <<"a","B">>
N_Age == <<"A","g","e">>
N_Salary == <<"S","a","l","a","r","y">>
N_Rows == <<"R","o","w","s">>
N_Boss == <<"B","o","s","s">>
N_Foo == <<"F","o","o">>
N_nickName == <<"n","i","c","k","N","a","m","e">>
N_NickName == <<"N","i","c","k","N","a","m","e">>
N_tag == <<"t","a","g">>
N_Tag == <<"T","a","g">>
N_motto == <<"m","o","t","t","o">>
N_Color == <<"C","o","l","o","r">>
N_Tone == <<"T","o","n","e">>
N_Tones == <<"T","o","n","e","s">>
N_Motto == <<"M","o","t","t","o">>

Prop(name, def) == [name |-> name, def |-> def]
StringDef == [type |-> "string"]
IntegerDef == [type |-> "integer"]

\* the shapes tried where a definition is expected: the empty shape, a shape
\* no rule matches, a string
ProbeShapes == {EmptyDef, [type |-> "undefinedType"], StringDef}

\* where the probed shape stands in the schema
ProbeSites == {"none", "definition", "property", "item property"}

\* the definition Person: its first property is named first, required lists
\* the required properties, catch_all tells whether it declares
\* additionalProperties of type string; a probed property on demand
PersonDef(first, required, catch_all, probed, shape) ==
    [type |-> "object",
     properties |-> <<Prop(first, StringDef), Prop(N_Age, IntegerDef)>>
                    \o (IF probed THEN <<Prop(N_Probe, shape)>> ELSE <<>>),
     required |-> required]
    @@ (IF catch_all THEN [additionalProperties |-> StringDef] ELSE EmptyDef)

\* Employee: allOf of the referenced Person and an inline object
EmployeeDef ==
    [allOf |-> <<[ref |-> RefTo(N_Person)],
                 [type |-> "object", properties |-> <<Prop(N_Salary, IntegerDef)>>]>>]

\* the root: a list of inline objects and a reference to Person
RootDef(shape) ==
    [type |-> "object",
     properties |-> <<Prop(N_Rows, [type |-> "array",
                                    items |-> [type |-> "object",
                                               properties |-> <<Prop(N_Foo, shape)>>]]),
                      Prop(N_Boss, [ref |-> RefTo(N_Person)])>>]

SchemaOf(first, required, catch_all, site, shape) ==
    [title |-> N_Root,
     defs |-> <<Prop(N_Person, PersonDef(first, required, catch_all,
                                         site = "property", shape)),
                Prop(N_Employee_, EmployeeDef)>>
              \o (IF site = "definition" THEN <<Prop(N_Probe, shape)>> ELSE <<>>),
     root |-> RootDef(IF site = "item property" THEN shape ELSE IntegerDef)]

SchemasNamed(first) ==
    { SchemaOf(first, required, catch_all, site, shape) :
        required \in {<<>>, <<first>>, <<first, N_Age>>},
        catch_all \in BOOLEAN,
        site \in ProbeSites,
        shape \in ProbeShapes }

Schemas == SchemasNamed(N_Name) \cup SchemasNamed(N_aB)

Init ==
    /\ schema \in Schemas
    /\ registry = InitialRegistry(schema)
    /\ phase = "group" /\ cursor = 1 /\ failure = ""
    /\ call = NotYet /\ made = NotYet /\ dumped = NotYet /\ reread = NotYet
    /\ message = OtherText /\ inits = <<>>
    /\ ClassifyIdle /\ PolyIdle /\ AuxIdle

\* a pass ended: with the registry after it, or with the exception that
\* leaves DefinitionRegistry.__init__
PassEnds(r, next_phase, next_cursor) ==
    /\ IF r.ok
       THEN registry' = r.reg /\ phase' = next_phase /\ failure' = failure
       ELSE registry' = registry /\ phase' = "failed" /\ failure' = r.exc
    /\ cursor' = next_cursor
    /\ UNCHANGED <<auxVars, schema, runVars, classifyVars, polyVars>>

\* self._group_schema_by_definition_type()
GroupSchemaByDefinitionType ==
    /\ phase = "group"
    /\ PassEnds(group_schema_by_definition_type(registry), "types", 1)

\* self._add_types_by_group(definition_type), for the next group in order
AddTypesByGroup ==
    /\ phase = "types"
    /\ PassEnds(add_types_by_group(registry, GroupOrder[cursor], 1),
                IF cursor = Len(GroupOrder) THEN "stubs" ELSE "types",
                IF cursor = Len(GroupOrder) THEN cursor ELSE cursor + 1)

\* self._add_custom_types_from_props()
AddCustomTypesFromProps ==
    /\ phase = "stubs"
    /\ PassEnds(add_custom_types_from_props(registry, 1), "properties", cursor)

\* self._add_properties_to_custom_types()
AddPropertiesToCustomTypes ==
    /\ phase = "properties"
    /\ PassEnds(add_properties_to_custom_types(registry, 1), "ready", cursor)

(***************************************************************************)
(* DefinitionRegistry(schema) alone, over schemas that vary what a         *)
(* definition refers to: the parents of an allOf, the target of a "$ref",  *)
(* the name of a property that is an inline object.                        *)
(***************************************************************************)
N_Sub == <<"S","u","b">>
N_sub == <<"s","u","b">>
N_Bonus == <<"B","o","n","u","s">>
N_Alias == <<"A","l","i","a","s">>
N_Other == <<"O","t","h","e","r">>
N_Staff == <<"S","t","a","f","f">>
N_Either == <<"E","i","t","h","e","r">>

\* what an element of Employee's allOf can be
ParentShapes ==
    {[ref |-> RefTo(N_Person)],
     [type |-> "object", properties |-> <<Prop(N_Salary, IntegerDef)>>],
     [type |-> "object", properties |-> <<Prop(N_Bonus, IntegerDef)>>,
      additionalProperties |-> IntegerDef]}

\* the definitions that stand before Employee and after it, by the kind of
\* reference they hold
Links ==
    {"none", "alias of custom", "alias of multi-inheritance", "alias of earlier alias",
     "alias of later alias", "list of multi-inheritance", "union"}
Alias(name) == [ref |-> RefTo(name)]
LinkedBefore(link) ==
    CASE link = "alias of custom" -> <<Prop(N_Alias, Alias(N_Person))>>
      [] link = "alias of multi-inheritance" -> <<Prop(N_Alias, Alias(N_Employee_))>>
      [] link = "alias of earlier alias" ->
             <<Prop(N_Other, Alias(N_Person)), Prop(N_Alias, Alias(N_Other))>>
      [] link = "alias of later alias" ->
             <<Prop(N_Alias, Alias(N_Other)), Prop(N_Other, Alias(N_Person))>>
      [] OTHER -> <<>>
LinkedAfter(link) ==
    CASE link = "list of multi-inheritance" ->
             <<Prop(N_Staff, [type |-> "array", items |-> Alias(N_Employee_)])>>
      [] link = "union" ->
             <<Prop(N_Either, [oneOf |-> <<Alias(N_Person), Alias(N_Employee_)>>])>>
      [] OTHER -> <<>>

\* the root: an inline object under the property nested, itself holding an
\* inline object, a list of inline objects and a reference
NestingRoot(nested) ==
    [type |-> "object",
     properties |-> <<Prop(nested, [type |-> "object",
                                    properties |-> <<Prop(N_Foo, IntegerDef),
                                                     Prop(N_tag, [type |-> "object",
                                                                    properties |-> <<Prop(N_Age, IntegerDef)>>,
                                                                    additionalProperties |-> StringDef])>>,
                                    required |-> <<N_Foo>>]),
                      Prop(N_Rows, [type |-> "array",
                                    items |-> [type |-> "object",
                                               properties |-> <<Prop(N_Foo, IntegerDef)>>]]),
                      Prop(N_Boss, [ref |-> RefTo(N_Person)])>>]

CompileSchemaOf(parents, link, nested) ==
    [title |-> N_Root,
     defs |-> LinkedBefore(link)
              \o <<Prop(N_Person, PersonDef(N_Name, <<N_Name>>, TRUE, FALSE, EmptyDef)),
                    Prop(N_Employee_, [allOf |-> parents])>>
              \o LinkedAfter(link),
     root |-> NestingRoot(nested)]

CompileSchemas ==
    { CompileSchemaOf(parents, link, nested) :
        parents \in SeqsUpTo(ParentShapes, MaxAllOf) \ {<<>>},
        link \in Links,
        nested \in {N_Sub, N_sub} }

CompileInit ==
    /\ schema \in CompileSchemas
    /\ registry = InitialRegistry(schema)
    /\ phase = "group" /\ cursor = 1 /\ failure = ""
    /\ call = NotYet /\ made = NotYet /\ dumped = NotYet /\ reread = NotYet
    /\ message = OtherText /\ inits = <<>>
    /\ ClassifyIdle /\ PolyIdle /\ AuxIdle

\* DefinitionRegistry._initialize_definitions, pass by pass
CompileNext ==
    \/ GroupSchemaByDefinitionType
    \/ AddTypesByGroup
    \/ AddCustomTypesFromProps
    \/ AddPropertiesToCustomTypes

SpecCompile == CompileInit /\ [][CompileNext]_vars

(***************************************************************************)
(* DefinitionRegistry(schema) alone, over schemas that vary the allOf of   *)
(* Employee (referenced, inline, required, conditional elements, none),    *)
(* a definition Manager that inherits from Employee, before or after it,   *)
(* and an inline allOf as the schema of a property or of                   *)
(* additionalProperties of the root.                                       *)
(***************************************************************************)
N_Grade == <<"G","r","a","d","e">>

\* what an element of Employee's allOf can be: the referenced Person, an
\* inline object with an optional property, one with a required property, a
\* conditional element
InheritShapes ==
    {[ref |-> RefTo(N_Person)],
     [type |-> "object", properties |-> <<Prop(N_Salary, IntegerDef)>>],
     [type |-> "object", properties |-> <<Prop(N_Bonus, IntegerDef)>>,
      required |-> <<N_Bonus>>],
     RoleIs("manager", N_Person)}

ManagerDef ==
    [allOf |-> <<[ref |-> RefTo(N_Employee_)],
                 [type |-> "object", properties |-> <<Prop(N_Grade, IntegerDef)>>]>>]

\* where the inline allOf stands in the root
InlineSites == {"none", "property", "additionalProperties"}
InlineRoot(site) ==
    [type |-> "object",
     properties |-> IF site = "property" THEN <<Prop(N_Boss, EmployeeDef)>> ELSE <<>>]
    @@ (IF site = "additionalProperties" THEN [additionalProperties |-> EmployeeDef]
        ELSE EmptyDef)

InheritSchemaOf(required, parents, manager, site) ==
    [title |-> N_Root,
     defs |-> <<Prop(N_Person, PersonDef(N_Name, required, FALSE, FALSE, EmptyDef))>>
              \o (IF manager = "before" THEN <<Prop(N_Manager, ManagerDef)>> ELSE <<>>)
              \o <<Prop(N_Employee_, [allOf |-> parents])>>
              \o (IF manager = "after" THEN <<Prop(N_Manager, ManagerDef)>> ELSE <<>>),
     root |-> InlineRoot(site)]

InheritSchemas ==
    { InheritSchemaOf(required, parents, manager, site) :
        required \in {<<>>, <<N_Name>>},
        parents \in SeqsUpTo(InheritShapes, MaxAllOf),
        manager \in {"none", "before", "after"},
        site \in InlineSites }

InheritInit ==
    /\ schema \in InheritSchemas
    /\ registry = InitialRegistry(schema)
    /\ phase = "group" /\ cursor = 1 /\ failure = ""
    /\ call = NotYet /\ made = NotYet /\ dumped = NotYet /\ reread = NotYet
    /\ message = OtherText /\ inits = <<>>
    /\ ClassifyIdle /\ PolyIdle /\ AuxIdle

SpecInherit == InheritInit /\ [][CompileNext]_vars

(***************************************************************************)
(* DefinitionRegistry(schema) entry by entry: one step for each iteration  *)
(* of the loops of _add_types_by_group, _add_custom_types_from_props and   *)
(* _add_properties_to_custom_types, which read the group they iterate      *)
(* anew at every iteration, and one step for the end of each loop.  The    *)
(* schemas hold a property of Person that references Person, a definition  *)
(* that references itself or inherits from itself, references to later     *)
(* definitions, and inline objects nested in the root.                     *)
(***************************************************************************)
\* the longest list a loop is followed on
MaxGroup == 24

N_Friend == <<"F","r","i","e","n","d">>

PassParentShapes == ParentShapes \cup {[ref |-> RefTo(N_Employee_)]}
PassLinks == {"none", "alias of itself", "alias of later alias", "union"}
SelfReferring(definition) ==
    [definition EXCEPT !.properties = Append(@, Prop(N_Friend, [ref |-> RefTo(N_Person)]))]

PassSchemaOf(parents, link, friend) ==
    [title |-> N_Root,
     defs |-> (IF link = "alias of itself" THEN <<Prop(N_Alias, Alias(N_Alias))>>
               ELSE LinkedBefore(link))
              \o <<Prop(N_Person,
                        IF friend
                        THEN SelfReferring(PersonDef(N_Name, <<N_Name>>, TRUE, FALSE, EmptyDef))
                        ELSE PersonDef(N_Name, <<N_Name>>, TRUE, FALSE, EmptyDef)),
                    Prop(N_Employee_, [allOf |-> parents])>>
              \o LinkedAfter(link),
     root |-> NestingRoot(N_Sub)]

PassSchemas ==
    { PassSchemaOf(parents, link, friend) :
        parents \in SeqsUpTo(PassParentShapes, MaxAllOf) \ {<<>>},
        link \in PassLinks,
        friend \in BOOLEAN }

PassesInit ==
    /\ schema \in PassSchemas
    /\ registry = InitialRegistry(schema)
    /\ phase = "group" /\ cursor = 1 /\ failure = ""
    /\ call = NotYet /\ made = NotYet /\ dumped = NotYet /\ reread = NotYet
    /\ message = OtherText /\ inits = <<>>
    /\ ClassifyIdle /\ PolyIdle /\ AuxIdle

\* the list the running loop iterates, as it stands
Iterated ==
    IF phase = "types" THEN Group(registry, GroupOrder[cursor]) ELSE Group(registry, CUSTOM)

\* an iteration ended: the loop goes on with the next entry, or the
\* exception leaves DefinitionRegistry.__init__
IterationEnds(r) ==
    /\ IF r.ok
       THEN registry' = r.reg /\ phase' = phase /\ failure' = failure
            /\ position' = position + 1
       ELSE registry' = registry /\ phase' = "failed" /\ failure' = r.exc
            /\ position' = position
    /\ UNCHANGED <<nameVars, sigVars, schema, cursor, runVars, classifyVars, polyVars>>

\* the loop found no further entry: the next loop starts at its first
LoopEnds(next_phase, next_cursor) ==
    /\ phase' = next_phase /\ cursor' = next_cursor /\ position' = 1
    /\ UNCHANGED <<nameVars, sigVars, schema, registry, failure, runVars, classifyVars,
                   polyVars>>

\* one iteration of the loop of _add_types_by_group
VisitType ==
    /\ phase = "types" /\ position <= Len(Iterated) /\ Len(Iterated) <= MaxGroup
    /\ IterationEnds(AddType(registry, GroupOrder[cursor], position))

TypesEnd ==
    /\ phase = "types" /\ position > Len(Iterated)
    /\ LoopEnds(IF cursor = Len(GroupOrder) THEN "stubs" ELSE "types",
                IF cursor = Len(GroupOrder) THEN cursor ELSE cursor + 1)

\* one iteration of the outer loop of _add_custom_types_from_props
VisitForStubs ==
    /\ phase = "stubs" /\ position <= Len(Iterated) /\ Len(Iterated) <= MaxGroup
    /\ IterationEnds(StubsOf(registry, position))

StubsEnd ==
    /\ phase = "stubs" /\ position > Len(Iterated)
    /\ LoopEnds("properties", cursor)

\* one iteration of the loop of _add_properties_to_custom_types
VisitForProperties ==
    /\ phase = "properties" /\ position <= Len(Iterated) /\ Len(Iterated) <= MaxGroup
    /\ IterationEnds(AddPropertiesTo(registry, Iterated[position]))

\* the loop ended: self._combine_inits_in_multiinheritance() closes the
\* pass and the construction
PropertiesEnd ==
    /\ phase = "properties" /\ position > Len(Iterated)
    /\ PassEnds(combine_inits_in_multiinheritance(registry, 1), "ready", cursor)

PassesNext ==
    \/ GroupSchemaByDefinitionType
    \/ VisitType
    \/ TypesEnd
    \/ VisitForStubs
    \/ StubsEnd
    \/ VisitForProperties
    \/ PropertiesEnd

\* where DefinitionRegistry.__init__ stands: the loop and its index
control == <<phase, cursor, position>>

\* the construction has a next statement to run: it has not returned or
\* raised, and the list iterated is within the length followed
Running ==
    /\ phase \in {"group", "types", "stubs", "properties"}
    /\ (phase = "group" \/ position > Len(Iterated) \/ Len(Iterated) <= MaxGroup)

\* control moves on, as every step of PassesNext moves it
Advance ==
    /\ Running
    /\ phase' \in {phase, "types", "stubs", "properties", "ready", "failed"}
    /\ cursor' \in {cursor, cursor + 1}
    /\ position' \in {1, position, position + 1}

\* the interpreter runs the statement that is next: while the construction
\* is running, control moves on
SpecPasses == PassesInit /\ [][PassesNext]_vars /\ WF_control(Advance)

\* one optional entry of a dict: absent, or present with one of the values
Entry(key, values) == {<<>>} \cup {<<[key |-> key, val |-> v]>> : v \in values}

\* the definition the registry holds under a name
Definition(name) == DefGet(registry.definitions, name)

\* the keyword arguments (snake = TRUE) or the dict entries (snake = FALSE)
\* tried on Person, with the extra entries of Employee and the unknown key
FirstName == schema.defs[1].def.properties[1].name
Key(name, snake) == IF snake THEN pascal_to_snake(name) ELSE name
\* the keys no property declares, as keywords and as dict keys
ExtraKeys(snake) ==
    IF snake THEN <<N_nickName, N_tag, N_motto>> ELSE <<N_NickName, N_Tag, N_Motto>>
\* the catch-alls the schema declares, in its definitions and in the
\* elements of their allOf
CatchAllsOf(definition) ==
    (IF Has(definition, "additionalProperties") THEN {definition.additionalProperties} ELSE {})
    \cup (IF Has(definition, "allOf")
          THEN {definition.allOf[i].additionalProperties :
                  i \in {j \in DOMAIN definition.allOf :
                            Has(definition.allOf[j], "additionalProperties")}}
          ELSE {})
\* the values tried under a key no property declares: an integer and, where
\* a catch-all of type integer can meet it, a string that int() rejects
ExtraValues ==
    {IntV(5)} \cup (IF \E i \in DOMAIN schema.defs : IntegerDef \in CatchAllsOf(schema.defs[i].def)
                    THEN {StrV("x")} ELSE {})
RECURSIVE ExtraEntries(_, _)
ExtraEntries(snake, n) ==
    IF n = 0 THEN {<<>>}
    ELSE { a \o b : a \in ExtraEntries(snake, n - 1),
                    b \in Entry(ExtraKeys(snake)[n], ExtraValues) }
PersonEntries(snake) ==
    { a \o b \o c :
        a \in Entry(Key(FirstName, snake), {StrV("a"), IntV(5)}),
        b \in Entry(Key(N_Age, snake), {IntV(3), StrV("x"), None}),
        c \in ExtraEntries(snake, MaxExtras) }
EmployeeEntries(snake) ==
    { a \o b : a \in PersonEntries(snake), b \in Entry(Key(N_Salary, snake), {IntV(7)}) }
\* whether the root declares the property
RootDeclares(name) ==
    \E i \in DOMAIN schema.root.properties : schema.root.properties[i].name = name
\* the dict form of an enum member, by its Id
IdOnly(id) == DictV(<<[key |-> <<"I","d">>, val |-> StrV(id)]>>)
\* the enum-typed entries of the root, where it declares them: a member,
\* an Id no member has; no list, the empty list, one member, two members
ToneEntries(snake) ==
    { a \o b :
        a \in IF RootDeclares(N_Tone)
              THEN Entry(Key(N_Tone, snake), {IdOnly("r"), IdOnly("z")}) ELSE {<<>>},
        b \in IF RootDeclares(N_Tones)
              THEN Entry(Key(N_Tones, snake),
                         {ListV(<<>>), ListV(<<IdOnly("r")>>),
                          ListV(<<IdOnly("r"), IdOnly("g")>>)})
              ELSE {<<>>} }
RootEntries(snake) ==
    { a \o b \o c :
        a \in Entry(Key(N_Rows, snake),
                    {ListV(<<>>), ListV(<<DictV(<<[key |-> N_Foo, val |-> IntV(1)]>>)>>)}),
        b \in Entry(Key(N_Boss, snake),
                    {DictV(<<[key |-> FirstName, val |-> StrV("a")]>>),
                     DictV(<<[key |-> FirstName, val |-> StrV("a")],
                             [key |-> N_Age, val |-> StrV("x")]>>)}),
        c \in ToneEntries(snake) }
EntriesFor(name, snake) ==
    CASE name = N_Person -> PersonEntries(snake)
      [] name = N_Employee_ -> EmployeeEntries(snake)
      [] name = N_Root -> RootEntries(snake)

RuntimeClasses == {N_Person, N_Employee_, N_Root}

\* the class a name of the registry stands for
ClassOf(name) == registry.type_hints[name].cid

\* the outcome of a call as made and reread keep it, the text apart
Outcome(out) == IF out.ok THEN out ELSE Raised(out.exc)

\* the calls the combined initializer of the class cid makes for the
\* keyword arguments kwargs
Dispatched(classes, cid, kwargs) ==
    IF ~classes[cid].combined THEN <<>>
    ELSE LET bound == Bind(classes[cid].sig, <<>>, kwargs)
         IN  IF ~bound.ok THEN <<>>
             ELSE SuperCalls(classes, Tail(classes[cid].mro),
                             bound.val.arguments, bound.val.kwargs)

RunEnds(r) ==
    /\ registry' = [registry EXCEPT !.classes = r.classes]
    /\ UNCHANGED <<auxVars, schema, phase, cursor, failure, classifyVars, polyVars>>

\* made = T(**kwargs)
Construct ==
    /\ phase = "ready" /\ call = NotYet
    /\ \E name \in RuntimeClasses : \E kwargs \in EntriesFor(name, TRUE) :
          LET r == construct(registry.classes, ClassOf(name), <<>>, kwargs)
          IN  /\ call' = [name |-> name, via |-> "init", entries |-> kwargs]
              /\ made' = Outcome(r.out)
              /\ message' = TextOf(r.out)
              /\ inits' = IF r.out.ok
                          THEN Dispatched(registry.classes, ClassOf(name), kwargs)
                          ELSE <<>>
              /\ RunEnds(r)
    /\ UNCHANGED <<auxVars, dumped, reread>>

\* made = T.from_dict(data)
FromDict ==
    /\ phase = "ready" /\ call = NotYet
    /\ \E name \in RuntimeClasses : \E data \in EntriesFor(name, FALSE) :
          LET r == from_dict(registry.classes, ClassOf(name), DictV(data))
          IN  /\ call' = [name |-> name, via |-> "from_dict", entries |-> data]
              /\ made' = Outcome(r.out)
              /\ message' = TextOf(r.out)
              /\ inits' = IF r.out.ok
                          THEN Dispatched(registry.classes, ClassOf(name),
                                          SnakeKeys(data, <<>>))
                          ELSE <<>>
              /\ RunEnds(r)
    /\ UNCHANGED <<auxVars, dumped, reread>>

\* dumped = made.to_dict()
ToDict ==
    /\ call # NotYet /\ made.ok /\ dumped = NotYet
    /\ dumped' = to_dict(registry.classes, made.val)
    /\ UNCHANGED <<auxVars, call, made, reread, message, inits, compileVars, classifyVars, polyVars>>

\* reread = T.from_dict(dumped)
RoundTrip ==
    /\ dumped # NotYet /\ dumped.ok /\ reread = NotYet
    /\ LET r == from_dict(registry.classes, ClassOf(call.name), dumped.val)
       IN  reread' = Outcome(r.out) /\ RunEnds(r)
    /\ UNCHANGED <<auxVars, call, made, dumped, message, inits>>

Next ==
    \/ GroupSchemaByDefinitionType
    \/ AddTypesByGroup
    \/ AddCustomTypesFromProps
    \/ AddPropertiesToCustomTypes
    \/ Construct
    \/ FromDict
    \/ ToDict
    \/ RoundTrip

Spec == Init /\ [][Next]_vars

(***************************************************************************)
(* The same, over schemas that vary the catch-all of Person and of the     *)
(* inline parent of Employee: none, of type string, of type integer.       *)
(***************************************************************************)
\* additionalProperties absent, or present with a definition
CatchAlls == {<<>>, <<StringDef>>, <<IntegerDef>>}
WithCatchAll(definition, catch_all) ==
    IF catch_all = <<>> THEN definition
    ELSE [additionalProperties |-> catch_all[1]] @@ definition

CatchAllSchemaOf(of_person, of_parent) ==
    [title |-> N_Root,
     defs |-> <<Prop(N_Person,
                     WithCatchAll(PersonDef(N_Name, <<N_Name>>, FALSE, FALSE, EmptyDef),
                                  of_person)),
                Prop(N_Employee_,
                     [allOf |-> <<[ref |-> RefTo(N_Person)],
                                  WithCatchAll([type |-> "object",
                                                properties |-> <<Prop(N_Salary, IntegerDef)>>],
                                               of_parent)>>])>>,
     root |-> RootDef(IntegerDef)]

CatchAllSchemas ==
    { CatchAllSchemaOf(of_person, of_parent) : of_person \in CatchAlls, of_parent \in CatchAlls }

CatchAllInit ==
    /\ schema \in CatchAllSchemas
    /\ registry = InitialRegistry(schema)
    /\ phase = "group" /\ cursor = 1 /\ failure = ""
    /\ call = NotYet /\ made = NotYet /\ dumped = NotYet /\ reread = NotYet
    /\ message = OtherText /\ inits = <<>>
    /\ ClassifyIdle /\ PolyIdle /\ AuxIdle

SpecCatchAll == CatchAllInit /\ [][Next]_vars

(***************************************************************************)
(* The same, over schemas with an enum definition Color: the root holds a  *)
(* member and a list of members of it, and Person declares                 *)
(* additionalProperties absent, false or of type string.                   *)
(***************************************************************************)
Member(id, description) == [Id |-> StrV(id), Description |-> StrV(description)]
Palettes ==
    {<<Member("r", "red")>>,
     <<Member("r", "red"), Member("g", "green")>>,
     <<Member("g", "green"), Member("r", "red")>>}

ValueSchemaOf(palette, of_person, required) ==
    [title |-> N_Root,
     defs |-> <<Prop(N_Person,
                     WithCatchAll(PersonDef(N_Name, <<N_Name>>, FALSE, FALSE, EmptyDef),
                                  of_person)),
                Prop(N_Employee_, EmployeeDef),
                Prop(N_Color, [enum |-> palette])>>,
     root |-> [type |-> "object",
               properties |-> RootDef(IntegerDef).properties
                              \o <<Prop(N_Tone, [ref |-> RefTo(N_Color)]),
                                   Prop(N_Tones, [type |-> "array",
                                                  items |-> [ref |-> RefTo(N_Color)]])>>,
               required |-> required]]

ValueSchemas ==
    { ValueSchemaOf(palette, of_person, required) :
        palette \in Palettes,
        of_person \in {<<>>, <<FalseSchema>>, <<StringDef>>},
        required \in {<<>>, <<N_Tone>>} }

ValuesInit ==
    /\ schema \in ValueSchemas
    /\ registry = InitialRegistry(schema)
    /\ phase = "group" /\ cursor = 1 /\ failure = ""
    /\ call = NotYet /\ made = NotYet /\ dumped = NotYet /\ reread = NotYet
    /\ message = OtherText /\ inits = <<>>
    /\ ClassifyIdle /\ PolyIdle /\ AuxIdle

SpecValues == ValuesInit /\ [][Next]_vars


(***************************************************************************)
(* What the schema declares, for the statements below.                     *)
(***************************************************************************)
\* the object schemas a definition draws its properties from: itself, or
\* the parents of its allOf (a referenced parent is looked up)
Parents(definition) ==
    IF Has(definition, "allOf")
    THEN [i \in DOMAIN definition.allOf |->
             IF Has(definition.allOf[i], "ref")
             THEN Definition(RefName(definition.allOf[i].ref))
             ELSE definition.allOf[i]]
    ELSE <<definition>>

RECURSIVE Concat(_)
Concat(seqs) == IF seqs = <<>> THEN <<>> ELSE seqs[1] \o Concat(Tail(seqs))

\* the properties a definition declares, its own or its parents'
Declared(definition) ==
    Concat([i \in DOMAIN Parents(definition) |-> Properties(Parents(definition)[i])])
\* the attribute names of the declared properties, of the required ones
DeclaredNames(definition) == {pascal_to_snake(p.name) : p \in Range(Declared(definition))}
RequiredNames(definition) ==
    {pascal_to_snake(p.name) : p \in Range(RequiredProps(definition))}
OptionalNames(definition) ==
    {pascal_to_snake(p.name) : p \in Range(NonRequiredProps(definition))}
\* a catch-all is configured: the definition or a parent declares
\* additionalProperties
CatchAll(definition) ==
    \E i \in DOMAIN Parents(definition) : Has(Parents(definition)[i], "additionalProperties")

\* the value is of the JSON type the property declares
OfDeclaredType(value, def) ==
    /\ Has(def, "type")
    /\ \/ def.type = "string" /\ value.k = "str"
       \/ def.type = "integer" /\ value.k = "int"

\* every keyword of the call that names a declared property carries a value
\* of the declared type
WellTyped(definition, entries) ==
    \A e \in Range(entries) : \A p \in Range(Declared(definition)) :
        pascal_to_snake(p.name) = e.key => OfDeclaredType(e.val, p.def)

\* a keyword construction T(**kwargs) was made on the definition named
\* call.name
Constructed == call # NotYet /\ call.via = "init"
Called == Definition(call.name)
Supplied == DictKeys(call.entries)
HasAttr(obj, name) == name \in DictKeys(obj.attrs)
Attr(obj, name) == DictGet(obj.attrs, name)

\* two values are equal attribute for attribute, the order of the
\* attributes and the identity of the objects left aside
RECURSIVE SameValue(_, _)
SameValue(a, b) ==
    IF a.k = "obj" /\ b.k = "obj"
    THEN /\ a.cid = b.cid
         /\ DictKeys(a.attrs) = DictKeys(b.attrs)
         /\ \A n \in DictKeys(a.attrs) : SameValue(Attr(a, n), Attr(b, n))
    ELSE IF a.k = "list" /\ b.k = "list"
    THEN /\ Len(a.items) = Len(b.items)
         /\ \A i \in DOMAIN a.items : SameValue(a.items[i], b.items[i])
    ELSE a = b

(***************************************************************************)
(* The statements.                                                         *)
(***************************************************************************)
\* C4: for a polymorph built from a discriminator {propertyName, mapping},
\* discriminate(data) calls exactly the caster registered for the definition
\* that mapping[data[propertyName]] references, with the full data, and
\* returns what it returns; if propertyName is absent from data or its value
\* is no key of the mapping, discriminate raises KeyError and calls no
\* caster.
C4_KeyedDiscriminate ==
    (pfFactory # NotYet /\ pfOutcome # NotYet) =>
        LET propertyName == pfDefinition.discriminator.propertyName
            mapping == pfDefinition.discriminator.mapping
        IN  IF /\ propertyName \in DictKeys(pfData)
               /\ \E i \in DOMAIN mapping : mapping[i].value = DictGet(pfData, propertyName)
            THEN \E i \in DOMAIN mapping :
                    /\ mapping[i].value = DictGet(pfData, propertyName)
                    /\ pfCalls = <<[caster |-> PolyCasters[RefName(mapping[i].ref)],
                                    arg |-> pfData]>>
                    /\ pfOutcome = Returned([k |-> "made", by |-> RefName(mapping[i].ref),
                                             from |-> pfData])
            ELSE pfOutcome = Raised(KeyError) /\ pfCalls = <<>>

\* the value of the discriminator selected the second entry of a mapping
\* of two, and the caster of that entry made the result
C4_Witness ==
    /\ pfFactory # NotYet /\ pfOutcome # NotYet /\ pfOutcome.ok
    /\ Len(pfDefinition.discriminator.mapping) = 2
    /\ pfDefinition.discriminator.mapping[2].value
          = DictGet(pfData, pfDefinition.discriminator.propertyName)
    /\ pfOutcome.val.by = RefName(pfDefinition.discriminator.mapping[2].ref)
    /\ Len(pfCalls) = 1

\* a condition {if: {properties: {field: {const: value}}}} holds of the data
Matches(condition, data) ==
    \A p \in Range(condition.if_.properties) :
        p.name \in DictKeys(data) /\ DictGet(data, p.name) = p.def.const
IsConditional(definition) == Has(definition, "allOf")

\* C5: for a polymorph built from an ordered allOf list of if/then
\* conditions, discriminate(data) calls the caster of the first condition,
\* in declaration order, whose every listed field equals its constant in
\* the data.
C5_FirstMatch ==
    (/\ IsConditional(pfDefinition) /\ pfOutcome # NotYet
     /\ \E i \in DOMAIN pfDefinition.allOf : Matches(pfDefinition.allOf[i], pfData)) =>
        LET first == CHOOSE i \in DOMAIN pfDefinition.allOf :
                        /\ Matches(pfDefinition.allOf[i], pfData)
                        /\ \A j \in 1 .. (i - 1) : ~Matches(pfDefinition.allOf[j], pfData)
            target == RefName(pfDefinition.allOf[first].then_.ref)
        IN  /\ pfOutcome = Returned([k |-> "made", by |-> target, from |-> pfData])
            /\ pfCalls = <<[caster |-> PolyCasters[target], arg |-> pfData]>>

\* C6: for a conditional-form polymorph, discriminate(data) on data that
\* satisfies none of the conditions raises ValueError and calls no caster.
C6_NoMatchValueError ==
    (/\ IsConditional(pfDefinition) /\ pfOutcome # NotYet
     /\ \A i \in DOMAIN pfDefinition.allOf : ~Matches(pfDefinition.allOf[i], pfData)) =>
        pfOutcome = Raised(ValueError) /\ pfCalls = <<>>

\* C8: the classifier applies its rules in a fixed precedence: "$ref" gives
\* passthrough whatever else is there; otherwise "allOf" gives polymorph
\* when every element has both "if" and "then" and multi-inheritance
\* otherwise; otherwise, without oneOf/anyOf, a "type" of the native set
\* gives custom for object, list for array and native for the rest; "enum"
\* is consulted only when no "type" rule applies.
C8_Precedence ==
    ccat # Pending =>
        /\ Has(cdef, "ref") => ccat = PASSTHROUGH
        /\ (~Has(cdef, "ref") /\ Has(cdef, "allOf")) =>
              ccat = IF \A i \in DOMAIN cdef.allOf :
                           Has(cdef.allOf[i], "if_") /\ Has(cdef.allOf[i], "then_")
                     THEN POLYMORPH ELSE MULTIINHERITANCE
        /\ (/\ ~Has(cdef, "ref") /\ ~Has(cdef, "allOf")
            /\ ~Has(cdef, "oneOf") /\ ~Has(cdef, "anyOf")) =>
              IF Has(cdef, "type") /\ cdef.type \in native_type_mapping
              THEN ccat = CASE cdef.type = "object" -> CUSTOM
                            [] cdef.type = "array" -> LIST
                            [] OTHER -> NATIVE
              ELSE Has(cdef, "enum") => ccat = ENUM

\* an allOf of one conditional element and one plain element, next to a
\* native type and an enum, was classified multi-inheritance
C8_Witness ==
    /\ ccat = MULTIINHERITANCE
    /\ ~Has(cdef, "ref") /\ Has(cdef, "type") /\ Has(cdef, "enum")
    /\ Len(cdef.allOf) = 2
    /\ Has(cdef.allOf[1], "if_") /\ Has(cdef.allOf[1], "then_")
    /\ ~Has(cdef.allOf[2], "if_")

\* C9: a definition without "$ref" and "allOf" that contains "oneOf" or
\* "anyOf" is classified polymorph if a "discriminator" key stands at the
\* same level, and union otherwise.
C9_DiscriminatorPolymorph ==
    (/\ ccat # Pending /\ ~Has(cdef, "ref") /\ ~Has(cdef, "allOf")
     /\ (Has(cdef, "oneOf") \/ Has(cdef, "anyOf"))) =>
        ccat = IF Has(cdef, "discriminator") THEN POLYMORPH ELSE UNION_

\* C1: for an instance x built by keyword construction or by from_dict,
\* x.to_dict() succeeds, T.from_dict(x.to_dict()) succeeds and the instance
\* it yields has the attribute names of x with equal values.
C1_RoundTrip ==
    /\ dumped # NotYet => dumped.ok
    /\ reread # NotYet => reread.ok /\ SameValue(reread.val, made.val)

\* C2: a keyword construction of a custom type that omits a required
\* property raises TypeError; one that supplies exactly the required
\* properties, with values of the declared types, succeeds and leaves every
\* optional attribute None.
C2_RequiredEnforced ==
    (Constructed /\ registry.definition_identities[call.name] = CUSTOM) =>
        /\ ~(RequiredNames(Called) \subseteq Supplied) => made = Raised(TypeError)
        /\ (Supplied = RequiredNames(Called) /\ WellTyped(Called, call.entries)) =>
              /\ made.ok
              /\ \A n \in OptionalNames(Called) : HasAttr(made.val, n) /\ Attr(made.val, n) = None

\* a construction of Person that omits one of its two required properties
\* and supplies the other was refused
C2_Witness ==
    /\ Constructed /\ call.name = N_Person
    /\ Len(Called.required) = 2
    /\ Cardinality(Supplied \cap RequiredNames(Called)) = 1
    /\ made = Raised(TypeError)

\* C3: a type compiled from an allOf of a referenced object definition and
\* an inline object schema accepts every property either parent declares: a
\* keyword construction with declared properties only, the required ones
\* among them, each with a value of its declared type, succeeds, and every
\* supplied property reads back with the value supplied.
C3_UnionOfFields ==
    (/\ Constructed
     /\ registry.definition_identities[call.name] = MULTIINHERITANCE
     /\ Supplied \subseteq DeclaredNames(Called)
     /\ \A i \in DOMAIN Parents(Called) : RequiredNames(Parents(Called)[i]) \subseteq Supplied
     /\ WellTyped(Called, call.entries)) =>
        /\ made.ok
        /\ \A e \in Range(call.entries) : HasAttr(made.val, e.key) /\ Attr(made.val, e.key) = e.val

\* Employee was constructed with every property of both parents and each
\* reads back
C3_Witness ==
    /\ Constructed /\ call.name = N_Employee_
    /\ Supplied = DeclaredNames(Called) /\ Cardinality(Supplied) = 3
    /\ WellTyped(Called, call.entries)
    /\ made.ok
    /\ Attr(made.val, pascal_to_snake(N_Salary)) = IntV(7)
    /\ Attr(made.val, pascal_to_snake(FirstName)) = StrV("a")

\* the string the catch-all caster str makes of a value of the model
Coerced(value) == IF value.k = "int" THEN StrV(ToString(value.i)) ELSE value

\* C7: a keyword that no property declares is accepted iff a catch-all is
\* configured for the type.  With the catch-all (additionalProperties of
\* type string) a construction that is otherwise in order succeeds and the
\* value is stored under the given key, coerced to a string; without it the
\* construction raises TypeError.
C7_CatchAll ==
    (Constructed /\ ~(Supplied \subseteq DeclaredNames(Called))) =>
        IF CatchAll(Called)
        THEN (/\ \A i \in DOMAIN Parents(Called) :
                    RequiredNames(Parents(Called)[i]) \subseteq Supplied
              /\ WellTyped(Called, call.entries)) =>
                 /\ made.ok
                 /\ \A e \in Range(call.entries) :
                       e.key \notin DeclaredNames(Called) =>
                          HasAttr(made.val, e.key) /\ Attr(made.val, e.key) = Coerced(e.val)
        ELSE made = Raised(TypeError)

\* a Person with a catch-all took the undeclared keyword nickName=5 and
\* holds it as the string "5"
C7_Witness ==
    /\ Constructed /\ call.name = N_Person /\ CatchAll(Called)
    /\ N_nickName \in Supplied /\ N_nickName \notin DeclaredNames(Called)
    /\ made.ok /\ Attr(made.val, N_nickName) = StrV("5")

\* the shape matches none of the rules of the classifier
Unidentified(def) == identify_definition_type(def) = DefinitionUnidentifiedError

\* C10: if a top-level definition, or a declared property of a custom
\* definition, has a shape no classifier rule matches (the empty shape
\* included), the construction of the registry raises
\* DefinitionUnidentifiedError: no registry is returned that holds such a
\* definition.
C10_UnidentifiedAborts ==
    /\ phase = "ready" =>
          \A i \in DOMAIN registry.definitions :
             /\ ~Unidentified(registry.definitions[i].def)
             /\ registry.definition_identities[registry.definitions[i].name] = CUSTOM =>
                   \A p \in Range(Properties(registry.definitions[i].def)) : ~Unidentified(p.def)
    /\ (/\ phase = "failed"
        /\ \E i \in DOMAIN InitialRegistry(schema).definitions :
              LET def == InitialRegistry(schema).definitions[i].def
              IN  \/ Unidentified(def)
                  \/ /\ identify_definition_type(def) = CUSTOM
                     /\ \E p \in Range(Properties(def)) : Unidentified(p.def))
          => failure = DefinitionUnidentifiedError

\* C11: for every valid identifier s and special names set S,
\* snake_to_pascal(pascal_to_snake(s, S), S) = s and
\* pascal_to_snake(snake_to_pascal(s, S), S) = s, and a name registered in S
\* is returned unchanged by both functions.
C11_CaseBijection ==
    IsIdentifier(nName) =>
        /\ nForth # NotYet =>
              /\ nForth.pascal = nName
              /\ nName \in nSpecial => nForth.snake = nName
        /\ nBack # NotYet =>
              /\ nBack.snake = nName
              /\ nName \in nSpecial => nBack.pascal = nName

\* the declarations among the calls, the names declared in the order of
\* their first declaration, the last declaration of a name
Declarations(calls) == SelectSeq(calls, LAMBDA c : c.op = "property")
FirstDeclared(calls) == Dedupe([i \in DOMAIN Declarations(calls) |-> Declarations(calls)[i].name])
LastDeclaration(calls, name) ==
    LET ds == SelectSeq(Declarations(calls), LAMBDA c : c.name = name) IN ds[Len(ds)]

\* C18: after any sequence of _add_property and _add_additional_properties
\* calls the signature of the initializer lists exactly the declared names,
\* each once, in the order of their first declaration, each with the
\* default of its last declaration, followed by the catch-all parameter iff
\* one is configured; the stored caster and type constraint of a name are
\* those of its last declaration.
C18_SignatureTracksProperties ==
    sCls # NotYet =>
        /\ [i \in DOMAIN sCls.sig.params |-> sCls.sig.params[i].name] = FirstDeclared(sCalls)
        /\ \A i \in DOMAIN sCls.sig.params :
              sCls.sig.params[i].has_default
                 = LastDeclaration(sCalls, sCls.sig.params[i].name).has_default
        /\ sCls.sig.var_kw = (\E i \in DOMAIN sCalls : sCalls[i].op = "additional")
        /\ \A name \in DictKeys(sCls.added_properties) :
              /\ name \in Range(FirstDeclared(sCalls))
              /\ DictGet(sCls.added_properties, name).caster
                    = PyCaster(LastDeclaration(sCalls, name).py)
              /\ DictGet(sCls.added_properties, name).type_hint
                    = PyHint(LastDeclaration(sCalls, name).py)

\* C12: a class registered under a name stays the type registered under
\* that name: no later registration puts another class in its place (every
\* class of the heap was created for the name it carries).
C12_SameTypeKept ==
    registry # NotYet =>
        \A cid \in DOMAIN registry.classes :
            registry.classes[cid].name \in DOMAIN registry.type_hints =>
                registry.type_hints[registry.classes[cid].name] = ClassHint(cid)

\* C13: in a schema whose every "$ref" names one of its definitions, the
\* compilation never looks up a referenced name that is not registered yet
\* (the lookup self._type_hints[ref_name] raises KeyError when it is not).
C13_ReferencedBeforeUse ==
    (\A i \in DOMAIN schema.defs : Has(schema.defs[i].def, "ref") =>
         RefName(schema.defs[i].def.ref) \in DefNames(schema.defs))
    => ~(phase = "failed" /\ failure = KeyError)

\* the class registered under a name of the custom category, the stub name
\* of a property, the properties of a definition that are inline objects
RegisteredClass(name) == registry.classes[registry.type_hints[name].cid]
StubName(owner, property_name) == Join(owner, pascal_to_snake(property_name))
CustomProps(definition) ==
    SelectSeq(Properties(definition), LAMBDA p : identify_definition_type(p.def) = CUSTOM)

\* C16: when the compilation has finished, the type registered under every
\* name of the custom category declares each property of the definition
\* held under that name, as a parameter of its initializer, and has a
\* catch-all if the definition declares additionalProperties.
C16_CustomFullyBound ==
    phase = "ready" =>
        \A name \in Range(Group(registry, CUSTOM)) :
            /\ \A p \in Range(Properties(Definition(name))) :
                  /\ pascal_to_snake(p.name) \in DictKeys(RegisteredClass(name).added_properties)
                  /\ pascal_to_snake(p.name) \in ParamNames(RegisteredClass(name).sig)
            /\ Has(Definition(name), "additionalProperties") =>
                  /\ RegisteredClass(name).kwargs_property.set
                  /\ RegisteredClass(name).sig.var_kw

\* a stub registered while the binding pass was running (the inline object
\* under the property tag of the class the pass created for Root's property
\* Sub) is bound, property and catch-all
C16_Witness ==
    /\ phase = "ready"
    /\ Join(Join(N_Root, N_Sub), N_tag) \in Range(Group(registry, CUSTOM))
    /\ pascal_to_snake(N_Age)
          \in ParamNames(RegisteredClass(Join(Join(N_Root, N_Sub), N_tag)).sig)
    /\ RegisteredClass(Join(Join(N_Root, N_Sub), N_tag)).sig.var_kw

\* C17: for every custom definition O and every property P of O that is an
\* inline object, the stub the discovery pass registers under
\* <O>_<snake(P)> is the type the binding pass declares for O's property P.
C17_PropertyTypeIsStub ==
    phase = "ready" =>
        \A owner \in Range(Group(registry, CUSTOM)) :
            \A p \in Range(CustomProps(Definition(owner))) :
                /\ StubName(owner, p.name) \in DOMAIN registry.type_hints
                /\ DictGet(RegisteredClass(owner).added_properties,
                           pascal_to_snake(p.name)).type_hint
                     = IF p.name \in Required(Definition(owner))
                       THEN registry.type_hints[StubName(owner, p.name)]
                       ELSE OptionalHint(registry.type_hints[StubName(owner, p.name)])

\* the classes among the direct parents of a class that have a catch-all,
\* in the order of declaration
KwargsParents(cls) ==
    SelectSeq(cls.bases, LAMBDA b : b # SchemaObjectId /\ registry.classes[b].kwargs_property.set)

\* C19: when more than one parent of a multi-inheritance type has a
\* catch-all, the catch-all of the type (caster and type hint) is the one of
\* the parent declared last among them.
C19_LastCatchAllWins ==
    phase = "ready" =>
        \A name \in Range(Group(registry, MULTIINHERITANCE)) :
            Len(KwargsParents(RegisteredClass(name))) > 1 =>
                RegisteredClass(name).kwargs_property
                  = registry.classes[KwargsParents(RegisteredClass(name))[
                        Len(KwargsParents(RegisteredClass(name)))]].kwargs_property

\* the keyword arguments of the call: the entries of a from_dict go through
\* pascal_to_snake first
Keywords == IF call.via = "init" THEN call.entries ELSE SnakeKeys(call.entries, <<>>)

\* int(value) raises: the caster of a property or catch-all of type integer
\* rejects a string that is no numeral (str never rejects a value of the
\* model)
Rejected(value, def) ==
    /\ Has(def, "type") /\ def.type = "integer"
    /\ value.k = "str" /\ ~IsNumeral(value.s)

\* the schema of the values under a key of a definition: the one of the
\* property declared under that name, or else its additionalProperties
DeclaredUnder(definition, key) ==
    {p \in Range(Properties(definition)) : pascal_to_snake(p.name) = key}
SchemaUnder(definition, key) ==
    IF DeclaredUnder(definition, key) # {}
    THEN (CHOOSE p \in DeclaredUnder(definition, key) : TRUE).def
    ELSE IF Has(definition, "additionalProperties") THEN definition.additionalProperties
    ELSE EmptyDef
\* the keywords of entries whose value the caster of the definition rejects
RejectedKeys(definition, entries) ==
    {e.key : e \in {x \in Range(entries) : Rejected(x.val, SchemaUnder(definition, x.key))}}

\* the type hint the class holds for a key: the property's, or the catch-all's
HintUnder(cls, key) ==
    IF key \in DictKeys(cls.added_properties)
    THEN DictGet(cls.added_properties, key).type_hint
    ELSE cls.kwargs_property.type_hint

\* C14: a keyword construction of a custom type in which the caster rejects
\* the value of one keyword, a declared property or a key of the catch-all,
\* raises a TypeError whose text names that keyword, the expected type, the
\* value and the type of the value.
C14_CastFailureNamesArgument ==
    (/\ Constructed
     /\ registry.definition_identities[call.name] = CUSTOM
     /\ RequiredNames(Called) \subseteq Supplied
     /\ (Supplied \subseteq DeclaredNames(Called) \/ CatchAll(Called))) =>
        \A e \in Range(call.entries) :
            RejectedKeys(Called, call.entries) = {e.key} =>
                /\ made = Raised(TypeError)
                /\ message = ArgumentText(e.key, HintUnder(RegisteredClass(call.name), e.key),
                                          e.val)

\* the field names a text names, outermost first
RECURSIVE PathOf(_)
PathOf(text) ==
    CASE text.kind = "argument" -> <<text.name>>
      [] text.kind = "constructing" -> PathOf(text.text)
      [] OTHER -> <<>>

\* the paths, from the root of the document entries of the definition, to
\* the values nested one object deep that the caster of their property
\* rejects
NestedRejected(definition, entries) ==
    UNION { {<<pascal_to_snake(e.key), k>> :
                k \in RejectedKeys(Definition(RefName(SchemaUnder(definition,
                                                       pascal_to_snake(e.key)).ref)),
                                   SnakeKeys(e.val.entries, <<>>))} :
            e \in {x \in Range(entries) :
                     /\ x.val.k = "dict"
                     /\ Has(SchemaUnder(definition, pascal_to_snake(x.key)), "ref")} }

\* C15: when from_dict fails on a value nested inside the document, the
\* TypeError that reaches the caller names the whole path from the root of
\* the document to the offending field, outermost name first.
C15_NestedFailureCarriesPath ==
    (call # NotYet /\ call.via = "from_dict") =>
        \A path \in NestedRejected(Called, call.entries) :
            NestedRejected(Called, call.entries) = {path} =>
                /\ made = Raised(TypeError)
                /\ PathOf(message) = path

\* the calls of the log made on the parents (the last call of the loop is
\* the one on SchemaObject itself)
ParentCalls == SelectSeq(inits, LAMBDA c : c.cls # SchemaObjectId)

\* C20: a call of the combined initializer of a multi-inheritance type that
\* returns has called the initializer of each parent once, in the order of
\* declaration, each with the bound arguments the parent declares and with
\* the extra keywords iff the parent has a catch-all, and with nothing else.
C20_EachParentOnce ==
    (/\ call # NotYet /\ made.ok
     /\ registry.definition_identities[call.name] = MULTIINHERITANCE) =>
        /\ [i \in DOMAIN ParentCalls |-> ParentCalls[i].cls] = RegisteredClass(call.name).bases
        /\ \A i \in DOMAIN ParentCalls :
              /\ DictKeys(ParentCalls[i].kwargs)
                    = DeclaredNames(Parents(Called)[i])
                      \cup (IF Has(Parents(Called)[i], "additionalProperties")
                            THEN DictKeys(Keywords) \ DeclaredNames(Called)
                            ELSE {})
              /\ \A k \in DictKeys(ParentCalls[i].kwargs) :
                    DictGet(ParentCalls[i].kwargs, k)
                      = IF k \in DictKeys(Keywords) THEN DictGet(Keywords, k) ELSE None

\* Employee(name="a", salary=7, nickName=5), both parents with a catch-all:
\* Person was called with name, age and nickName, the inline parent with
\* salary and nickName
C20_Witness ==
    /\ Constructed /\ made.ok /\ call.name = N_Employee_
    /\ \A i \in DOMAIN Parents(Called) : Has(Parents(Called)[i], "additionalProperties")
    /\ Supplied = {pascal_to_snake(N_Name), pascal_to_snake(N_Salary), N_nickName}
    /\ Len(ParentCalls) = 2
    /\ DictKeys(ParentCalls[1].kwargs)
          = {pascal_to_snake(N_Name), pascal_to_snake(N_Age), N_nickName}
    /\ DictKeys(ParentCalls[2].kwargs) = {pascal_to_snake(N_Salary), N_nickName}

(***************************************************************************)
(* to_dict.                                                                *)
(***************************************************************************)
\* whether a generated instance, composite or enum member, stands in the
\* value at some depth
RECURSIVE HoldsInstance(_)
HoldsInstance(value) ==
    CASE value.k \in {"obj", "enum"} -> TRUE
      [] value.k = "list" -> \E i \in DOMAIN value.items : HoldsInstance(value.items[i])
      [] value.k = "dict" -> \E i \in DOMAIN value.entries : HoldsInstance(value.entries[i].val)
      [] OTHER -> FALSE

\* the external names of the attributes of an instance, in assignment order
ExternalNames(classes, obj) ==
    [i \in DOMAIN obj.attrs |->
        snake_to_pascal(obj.attrs[i].key, classes[obj.cid].special_names_set)]

\* C21: to_dict returns one entry per attribute of the instance, in
\* assignment order and under the attribute's external name, and no
\* generated instance, composite or enum member, is left in the returned
\* structure at any depth.
C21_ToDictIsPlain ==
    (dumped # NotYet /\ dumped.ok) =>
        /\ [i \in DOMAIN dumped.val.entries |-> dumped.val.entries[i].key]
              = ExternalNames(registry.classes, made.val)
        /\ ~HoldsInstance(dumped.val)

(***************************************************************************)
(* None and required properties; additionalProperties: false.              *)
(***************************************************************************)
\* the keywords of the call that carry None
SuppliedNone == {e.key : e \in {x \in Range(call.entries) : x.val = None}}

\* C28: a required property never holds None after a successful
\* construction: a keyword construction of a custom type that passes None
\* for a required property raises TypeError.
C28_RequiredNeverNone ==
    (Constructed /\ registry.definition_identities[call.name] = CUSTOM) =>
        /\ made.ok => \A n \in RequiredNames(Called) : Attr(made.val, n) # None
        /\ (SuppliedNone \cap RequiredNames(Called) # {}) => made = Raised(TypeError)

\* the definition sets additionalProperties to false
Closed(definition) ==
    Has(definition, "additionalProperties") /\ definition.additionalProperties = FalseSchema

\* C29: a custom definition that sets additionalProperties to false
\* compiles to a type with no catch-all, and a keyword construction of it
\* with a keyword that no property declares raises TypeError.
C29_ClosedTypeRejects ==
    /\ phase = "ready" =>
          \A name \in Range(Group(registry, CUSTOM)) :
              Closed(Definition(name)) =>
                 /\ RegisteredClass(name).kwargs_property = NoKwargs
                 /\ ~RegisteredClass(name).sig.var_kw
    /\ (Constructed /\ Closed(Called) /\ ~(Supplied \subseteq DeclaredNames(Called))) =>
          made = Raised(TypeError)

(***************************************************************************)
(* The working definition set.                                             *)
(***************************************************************************)
\* the names of the multi-inheritance definitions whose type is built
BuiltMultiinheritance ==
    {name \in DOMAIN registry.type_hints \cap DefNames(registry.definitions) :
        /\ name \in DOMAIN registry.definition_identities
        /\ registry.definition_identities[name] = MULTIINHERITANCE}

\* the inline parents of a multi-inheritance definition
InlineParents(definition) ==
    {definition.allOf[i] :
        i \in {j \in DOMAIN definition.allOf :
                  identify_definition_type(definition.allOf[j]) = CUSTOM}}

\* C22: the definitions of the schema stay in the working set as the schema
\* gives them, and every anonymous parent synthesized for a
\* multi-inheritance definition is held in the set under a name of its own:
\* two anonymous parents of one definition are both held.
C22_InsertOnly ==
    /\ \A i \in DOMAIN schema.defs :
          /\ schema.defs[i].name \in DefNames(registry.definitions)
          /\ DefGet(registry.definitions, schema.defs[i].name) = schema.defs[i].def
    /\ \A name \in BuiltMultiinheritance :
          \A parent \in InlineParents(Definition(name)) :
              \E stub \in DefNames(registry.definitions) :
                  /\ DefGet(registry.definitions, stub) = parent
                  /\ \A i \in DOMAIN schema.defs : schema.defs[i].name # stub

(***************************************************************************)
(* Passthrough definitions.                                                *)
(***************************************************************************)
\* the definition a passthrough definition references
Target(name) == RefName(Definition(name).ref)
\* the passthrough definitions that reference a composite definition
PassthroughsOfComposite ==
    {name \in Range(Group(registry, PASSTHROUGH)) :
        /\ Target(name) \in DOMAIN registry.definition_identities
        /\ registry.definition_identities[Target(name)] \in {CUSTOM, MULTIINHERITANCE}}

\* C24: once the compilation is ready, the type registered for a
\* passthrough definition that references a composite definition has the
\* declared properties (names, casters, type hints, defaults), the catch-all
\* and the initializer signature of the type registered for the referenced
\* definition, and is built by the same caster.
C24_PassthroughSameType ==
    phase = "ready" =>
        \A name \in PassthroughsOfComposite :
            /\ registry.type_hints[name].h = "class"
            /\ RegisteredClass(name).added_properties
                  = RegisteredClass(Target(name)).added_properties
            /\ RegisteredClass(name).kwargs_property
                  = RegisteredClass(Target(name)).kwargs_property
            /\ RegisteredClass(name).sig = RegisteredClass(Target(name)).sig
            /\ registry.casters[name] = registry.casters[Target(name)]

\* Alias references Person, which declares properties and a catch-all, and
\* the compilation is ready
C24_Witness ==
    /\ phase = "ready"
    /\ N_Alias \in PassthroughsOfComposite /\ Target(N_Alias) = N_Person
    /\ RegisteredClass(N_Person).added_properties # <<>>
    /\ RegisteredClass(N_Person).kwargs_property # NoKwargs

(***************************************************************************)
(* Multi-inheritance definitions.                                          *)
(***************************************************************************)
\* the schema defines Mgr; the root declares nothing
HasManager == N_Manager \in DefNames(schema.defs)
PlainRoot == schema.root.properties = <<>> /\ ~Has(schema.root, "additionalProperties")

\* an allOf of parents only: references and inline objects, no element
\* twice and at most one inline object
PlainAllOf(definition) ==
    /\ Has(definition, "allOf") /\ definition.allOf # <<>>
    /\ \A i \in DOMAIN definition.allOf :
          identify_definition_type(definition.allOf[i]) \in {PASSTHROUGH, CUSTOM}
    /\ \A i, j \in DOMAIN definition.allOf :
          /\ definition.allOf[i] = definition.allOf[j] => i = j
          /\ (/\ identify_definition_type(definition.allOf[i]) = CUSTOM
              /\ identify_definition_type(definition.allOf[j]) = CUSTOM) => i = j

\* the parameters of a signature that have no default, that have one
RequiredParams(sig) == {sig.params[i].name : i \in {j \in DOMAIN sig.params : ~sig.params[j].has_default}}
DefaultedParams(sig) == {sig.params[i].name : i \in {j \in DOMAIN sig.params : sig.params[j].has_default}}

\* C25: finalizing a multi-inheritance definition succeeds whatever the
\* parents require: for Employee, an allOf of parents, the compilation does
\* not fail, and the combined initializer requires exactly the properties a
\* parent requires and gives a default to every other declared property.
C25_AnyRequiredMix ==
    (PlainAllOf(Definition(N_Employee_)) /\ ~HasManager /\ PlainRoot) =>
        /\ phase # "failed"
        /\ phase = "ready" =>
              /\ RegisteredClass(N_Employee_).combined
              /\ RequiredParams(RegisteredClass(N_Employee_).sig)
                    = UNION {RequiredNames(Parents(Definition(N_Employee_))[i]) :
                               i \in DOMAIN Parents(Definition(N_Employee_))}
              /\ DefaultedParams(RegisteredClass(N_Employee_).sig)
                    = UNION {OptionalNames(Parents(Definition(N_Employee_))[i]) :
                               i \in DOMAIN Parents(Definition(N_Employee_))}

\* C26: where Mgr inherits from Employee, itself an allOf of the referenced
\* Person and an inline object with optional properties, the compilation
\* does not fail whichever of the two the schema lists first, and the
\* combined initializer of Mgr has each inherited property, and its own,
\* exactly once.
C26_OrderIndependent ==
    (/\ HasManager /\ PlainRoot
     /\ Definition(N_Employee_) = EmployeeDef) =>
        /\ phase # "failed"
        /\ phase = "ready" =>
              /\ RegisteredClass(N_Manager).combined
              /\ ParamNames(RegisteredClass(N_Manager).sig)
                    = DeclaredNames(Definition(N_Employee_))
                      \cup DeclaredNames(Definition(N_Manager).allOf[2])
              /\ Len(RegisteredClass(N_Manager).sig.params)
                    = Cardinality(ParamNames(RegisteredClass(N_Manager).sig))

\* C27: the classifier and the type builder agree on every allOf
\* definition: for Employee, whatever its allOf holds (parents, conditional
\* elements, both, nothing), the types pass builds a class where the
\* classifier said multi-inheritance and a discriminating union where it
\* said polymorph, and does not fail on it.
C27_ClassifierBuilderAgree ==
    (/\ ~HasManager
     /\ \A i, j \in DOMAIN Definition(N_Employee_).allOf :
           Definition(N_Employee_).allOf[i] = Definition(N_Employee_).allOf[j] => i = j) =>
        /\ phase = "failed" => N_Employee_ \in DOMAIN registry.type_hints
        /\ N_Employee_ \in DOMAIN registry.type_hints =>
              IF identify_definition_type(Definition(N_Employee_)) = MULTIINHERITANCE
              THEN /\ registry.type_hints[N_Employee_].h = "class"
                   /\ Len(RegisteredClass(N_Employee_).bases)
                         = Len(Definition(N_Employee_).allOf)
              ELSE /\ identify_definition_type(Definition(N_Employee_)) = POLYMORPH
                   /\ registry.casters[N_Employee_].c = "discriminate"

\* the classes made of several parents, or of a parent other than
\* SchemaObject: the multi-inheritance types
MultiinheritanceTypes ==
    {cid \in DOMAIN registry.classes : registry.classes[cid].bases # <<SchemaObjectId>>}

\* C30: every multi-inheritance type the compiler creates is finalized: for
\* a schema whose Employee is the allOf of Person and an inline object, with
\* the same allOf inline under a property or under additionalProperties of
\* the root, the compilation does not fail, and once it is ready every
\* multi-inheritance type has a combined initializer that takes every
\* property its parents declare.
C30_EveryTypeFinalized ==
    (~HasManager /\ Definition(N_Employee_) = EmployeeDef) =>
        /\ phase # "failed"
        /\ phase = "ready" =>
              \A cid \in MultiinheritanceTypes :
                  /\ registry.classes[cid].combined
                  /\ \A b \in Range(registry.classes[cid].bases) :
                        DictKeys(registry.classes[b].added_properties)
                           \subseteq ParamNames(registry.classes[cid].sig)

(***************************************************************************)
(* Termination of the compilation.                                         *)
(***************************************************************************)
\* C23: the compilation of a finite schema terminates, with forward
\* references and self-references and with the custom group extended while
\* the passes iterate over it: every run of the passes, entry by entry,
\* comes to the end of DefinitionRegistry.__init__, ready or with an
\* exception.
C23_CompilationEnds == <>(phase \in {"ready", "failed"})

\* the compilation of a schema whose Person references itself is ready, the
\* binding pass having visited every entry of the custom group, Root_Sub
\* among them, which it appended itself
C23_Witness ==
    /\ phase = "ready"
    /\ N_Friend \in {p.name : p \in Range(Properties(Definition(N_Person)))}
    /\ Join(N_Root, N_Sub) \in Range(Group(registry, CUSTOM))
    /\ position = Len(Group(registry, CUSTOM)) + 1

====
